---- MODULE Spec2Model ----
(***************************************************************************)
(* A model of fish-shell's terminal-capability store (curses.rs) and of    *)
(* the environment-variable dispatcher that drives it (env_dispatch.rs).   *)
(*                                                                         *)
(* Strings are sequences of one-character strings, byte strings are        *)
(* sequences of byte values, Option<T> is a sequence of length 0 (None)    *)
(* or 1 (Some).                                                            *)
(***************************************************************************)
EXTENDS Integers, Sequences, FiniteSets, TLC

VARIABLES
    cur_term,   \* ffi::cur_term: 0 is the null pointer, else a native handle
    heap,       \* the native TERMINAL objects that are allocated and not deleted
    db,         \* names that have an entry in the terminal database
    penv,       \* the process environment (getenv/setenv_lock/unsetenv_lock)
    TERM,       \* static TERM: Mutex<Option<Term>>, the protected value
    panic,      \* "" or the message of the panic that ended the thread
    lastOp,     \* history: the last store operation, its arguments and results
    lastSet,    \* history: per capability, the value of the last Term::set on this store
    nativeOk,   \* history: per capability, successful tgetstr answers since the last setup
    mutex,      \* the Mutex around TERM: 0 is unlocked, else the thread that holds the guard
    poisoned,   \* the Mutex was held by a thread that panicked
    tpc,        \* per thread: where it is in the call it makes
    tloc,       \* per thread: the cur_term pointer its native call has loaded
    targ,       \* per thread: the term argument of its setup call
    tres,       \* per thread: what its setupterm returned
    uaf,        \* a native call used a TERMINAL that had been deleted
    vars,       \* the shell's variables (vars: &dyn Environment): name -> Option<value>
    exported,   \* the names of the shell variables that are exported
    changes,    \* how many times the shell has changed a variable since startup
    color_support,  \* the value last given to output_set_color_support
    ipc,        \* where the running handler or initializer is
    fbi,        \* initialize_curses_using_fallbacks: index of the next fallback name
    macos,      \* cfg(target_os = "macos")
    tty,        \* what ttyname_r(STDIN_FILENO) gives: None for an error, else the name
    wcwidth_emoji,  \* what fallback::wcwidth gives for U+1F603
    mc_hack,    \* screen_set_midnight_commander_hack() was called
    CAN_SET_TERM_TITLE,
    TERM_HAS_XN,
    CURSES_INITIALIZED,
    FISH_EMOJI_WIDTH,
    tried,      \* history: the setup calls of the running init_curses, with their results
    regs,       \* the registrations the table's constructor makes, in order
    build,      \* the constructor's run: its local table and its position
    lazy,       \* static VAR_DISPATCH_TABLE: the Lazy cell
    disp,       \* per thread: its env_dispatch_var_change call and the callbacks it invoked
    ran,        \* history: the startup handlers that have returned, in order
    syslocales, \* the locale names the system can load besides "C"
    locale,     \* the process locale: the name in effect for each category
    old_msg_locale, \* init_locale: the LC_MESSAGES name it read on entry
    li,         \* init_locale: index of the next name of UTF8_LOCALES
    setlocale_calls,    \* history: the setlocale(LC_CTYPE, name) calls of the running init_locale
    nl_msg_cat_cntr,    \* GNU gettext's _nl_msg_cat_cntr
    READ_BYTE_LIMIT,    \* a usize, as its decimal digits without leading zeros
    warnings,   \* history: the warnings logged, in order
    interactive,    \* what is_interactive_session() gives
    FISH_AMBIGUOUS_WIDTH,
    USE_POSIX_SPAWN,
    openbsd,    \* cfg!(target_os = "openbsd")
    wait_on_escape_ms,  \* the value last given to update_wait_on_escape_ms_ffi
    trace_enabled,  \* the value last given to trace_set_enabled
    frames,     \* the calls of the source builtin that have not returned, innermost last
    blocks,     \* the parser's block stack, innermost last
    current_filename,   \* parser.libdata().current_filename: Option<FilenameRef>
    argv,       \* the shell's $argv
    lastcall    \* history: the call of source that returned last, as it was on return

storeVars == <<cur_term, heap, TERM>>
worldVars == <<db, penv>>
histVars == <<lastOp, lastSet, nativeOk>>
concVars == <<mutex, poisoned, tpc, tloc, targ, tres, uaf>>
\* The threads' own positions and findings, without the mutex and its poison flag.
threadVars == <<tpc, tloc, targ, tres, uaf>>

envVars == <<vars, exported, changes>>

platformVars == <<macos, tty, wcwidth_emoji>>
\* The parser's state, which the source builtin changes.
sourceVars == <<frames, blocks, current_filename, argv, lastcall>>
\* What no code of the terminal and dispatch modules writes.
outsideVars == <<platformVars, sourceVars>>
flagVars == <<mc_hack, CAN_SET_TERM_TITLE, TERM_HAS_XN, CURSES_INITIALIZED>>
widthVars == <<FISH_EMOJI_WIDTH>>
tableVars == <<regs, build, lazy, disp>>
localeVars == <<syslocales, locale, old_msg_locale, li, setlocale_calls, nl_msg_cat_cntr>>
settingVars == <<READ_BYTE_LIMIT, warnings, interactive, FISH_AMBIGUOUS_WIDTH, USE_POSIX_SPAWN,
                 openbsd, wait_on_escape_ms, trace_enabled>>
startVars == <<ran, localeVars, settingVars>>

allvars == <<storeVars, worldVars, histVars, panic, concVars, envVars, color_support,
             ipc, fbi, outsideVars, flagVars, widthVars, tried, tableVars, startVars>>

\* What the single-threaded store operations leave alone.
notStore == <<concVars, envVars, color_support, ipc, fbi, outsideVars, flagVars,
              widthVars, tried, tableVars, startVars>>

(***************************************************************************)
(* Bounds and program constants                                            *)
(***************************************************************************)
\* Native handles the allocator can hand out (addresses may be reused).
MaxHandles == 2
\* History counters saturate here.
MaxCount == 2
\* Changes of shell variables after startup.
MaxChanges == 1
\* Calls of add and add_anon in a table initializer other than the source's.
MaxRegs == 2
\* Threads of the shell that use the store.
NThreads == 2
\* Thread 1 owns variable mutation.
Threads == 1..NThreads
Writer == CHOOSE t \in Threads : \A u \in Threads : t <= u
\* i32::MAX
I32Max == 2147483647
\* curses.rs: let mut result = vec![b'\0'; 100];
BufLen == 100
\* curses.rs: const OK, const ERR
OK == 0
ERR == -1

None == <<>>
Some(x) == <<x>>
IsSome(o) == Len(o) = 1
IsNone(o) == Len(o) = 0
Unwrap(o) == o[1]

Min(a, b) == IF a < b THEN a ELSE b

(***************************************************************************)
(* Terminal names and escape sequences                                     *)
(***************************************************************************)
s_xterm_256color == <<"x","t","e","r","m","-","2","5","6","c","o","l","o","r">>
s_xterm == <<"x","t","e","r","m">>
s_ansi == <<"a","n","s","i">>
s_dumb == <<"d","u","m","b">>

\* env_dispatch.rs: SITM_ESC "\x1B[3m", RITM_ESC "\x1B[23m", DIM_ESC "\x1B[2m"
SITM_ESC == <<27, 91, 51, 109>>
RITM_ESC == <<27, 91, 50, 51, 109>>
DIM_ESC == <<27, 91, 50, 109>>

(***************************************************************************)
(* Capability identifiers: Code { code: [u8; 3] } and its derived Ord      *)
(***************************************************************************)
Code(a, b) == <<a, b, 0>>

ENTER_ITALICS_MODE == Code(90, 72)     \* "ZH"
EXIT_ITALICS_MODE == Code(90, 82)      \* "ZR"
ENTER_DIM_MODE == Code(109, 104)       \* "mh"
EAT_NEWLINE_GLITCH == Code(120, 110)   \* "xn"
MAX_COLORS == Code(67, 111)            \* "Co"

StringCaps == {ENTER_ITALICS_MODE, EXIT_ITALICS_MODE, ENTER_DIM_MODE}

\* #[derive(PartialOrd, Ord)] on [u8; 3]: lexicographic comparison of the bytes.
RECURSIVE CmpFrom(_, _, _)
CmpFrom(a, b, i) ==
    IF i > Len(a) THEN "Equal"
    ELSE IF a[i] < b[i] THEN "Less"
    ELSE IF a[i] > b[i] THEN "Greater"
    ELSE CmpFrom(a, b, i + 1)

CodeCmp(a, b) == CmpFrom(a, b, 1)

(***************************************************************************)
(* The override table: Vec<(StringCap, String)>                            *)
(***************************************************************************)
\* slice::binary_search_by with the comparator |entry| entry.0.cmp(&id).
\* Indices are the 0-based indices of the Rust slice.
RECURSIVE SearchFrom(_, _, _, _)
SearchFrom(s, id, left, right) ==
    IF left >= right THEN [ok |-> FALSE, idx |-> left]
    ELSE LET mid == left + ((right - left) \div 2)
             c == CodeCmp(s[mid + 1][1], id)
         IN  IF c = "Less" THEN SearchFrom(s, id, mid + 1, right)
             ELSE IF c = "Greater" THEN SearchFrom(s, id, left, mid)
             ELSE [ok |-> TRUE, idx |-> mid]

binary_search_by(s, id) == SearchFrom(s, id, 0, Len(s))

\* Vec::insert(idx, e)
VecInsert(s, idx, e) == SubSeq(s, 1, idx) \o <<e>> \o SubSeq(s, idx + 1, Len(s))

\* Term::new
TermNew == [overrides |-> <<>>]

\* The table has an entry for id.
InTable(term, id) == \E i \in 1..Len(term.overrides) : term.overrides[i][1] = id

\* A set that pushes the entry at the end of the table without searching it.
TermSet_push(term, id, value) ==
    [term EXCEPT !.overrides = Append(term.overrides, <<id, value>>)]

\* Term::set
TermSet(term, id, value) ==
    LET r == binary_search_by(term.overrides, id)
    IN  IF r.ok
        THEN [term EXCEPT !.overrides[r.idx + 1] = <<id, value>>]
        ELSE [term EXCEPT !.overrides = VecInsert(term.overrides, r.idx, <<id, value>>)]

\* The buffer handed to tgetstr, after tgetstr copied its answer into it:
\* String::from_utf8(result) keeps all 100 bytes.
AreaBuffer(answer) == answer \o [i \in 1..(BufLen - Len(answer)) |-> 0]

\* A lookup that returns the native answer without inserting it.
StringCapLookup_nocache(term, id, answer) ==
    LET r == binary_search_by(term.overrides, id)
    IN  IF r.ok
        THEN [term |-> term, ret |-> Some(term.overrides[r.idx + 1][2]), native |-> FALSE]
        ELSE IF IsNone(answer)
        THEN [term |-> term, ret |-> None, native |-> TRUE]
        ELSE [term |-> term, ret |-> Some(AreaBuffer(Unwrap(answer))), native |-> TRUE]

\* A lookup that asks the native layer before the override table.
StringCapLookup_nativefirst(term, id, answer) ==
    IF IsSome(answer)
    THEN [term |-> term, ret |-> Some(AreaBuffer(Unwrap(answer))), native |-> TRUE]
    ELSE LET r == binary_search_by(term.overrides, id)
         IN  [term |-> term,
              ret |-> IF r.ok THEN Some(term.overrides[r.idx + 1][2]) ELSE None,
              native |-> TRUE]

\* <StringCap as Capability>::lookup. `answer` is what ffi::tgetstr gives for id
\* (None for a null pointer); it is consulted only on a miss.
StringCapLookup(term, id, answer) ==
    LET r == binary_search_by(term.overrides, id)
    IN  IF r.ok
        THEN [term |-> term, ret |-> Some(term.overrides[r.idx + 1][2]), native |-> FALSE]
        ELSE IF IsNone(answer)
        THEN [term |-> term, ret |-> None, native |-> TRUE]
        ELSE LET t2 == [term EXCEPT !.overrides =
                           VecInsert(term.overrides, r.idx,
                                     <<id, AreaBuffer(Unwrap(answer))>>)]
             IN  [term |-> t2, ret |-> Some(t2.overrides[r.idx + 1][2]), native |-> TRUE]

\* <Number as Capability>::lookup: -1 is "not found".
NumberLookup(n) == IF n = -1 THEN None ELSE Some(n)

(***************************************************************************)
(* The native layer (ncurses)                                              *)
(***************************************************************************)
NoStrings == [c \in StringCaps |-> None]

\* The terminal database's content for each name the model installs.
TermInfo(name) ==
    IF name = s_xterm_256color
    THEN [name |-> name, co |-> 256, xn |-> TRUE,
          str |-> [NoStrings EXCEPT ![ENTER_DIM_MODE] = Some(DIM_ESC)]]
    ELSE IF name = s_xterm
    THEN [name |-> name, co |-> 8, xn |-> TRUE,
          str |-> [NoStrings EXCEPT ![ENTER_ITALICS_MODE] = Some(SITM_ESC),
                                    ![EXIT_ITALICS_MODE] = Some(RITM_ESC)]]
    ELSE IF name = s_ansi
    THEN [name |-> name, co |-> 8, xn |-> FALSE, str |-> NoStrings]
    ELSE [name |-> name, co |-> -1, xn |-> FALSE, str |-> NoStrings]

Handles == 1..MaxHandles
Live == DOMAIN heap

\* setupterm(NULL, ...) reads TERM from the process environment.
TermArg(term) == IF IsSome(term) THEN term ELSE penv["TERM"]

\* The terminal database has an entry for the name setupterm is asked for.
SetuptermFinds(term) == IsSome(TermArg(term)) /\ Unwrap(TermArg(term)) \in db

\* ffi::setupterm's return value (errret is given, so it returns instead of exiting).
setupterm(term) == IF SetuptermFinds(term) THEN OK ELSE ERR

\* tgetstr/tgetnum/tgetflag on cur_term; ncurses answers "absent" without a terminal.
tgetstr(cur, hp, id) == IF cur = 0 THEN None ELSE hp[cur].str[id]
tgetnum(cur, hp) == IF cur = 0 THEN -1 ELSE hp[cur].co
tgetflag(cur, hp) == IF cur = 0 THEN FALSE ELSE hp[cur].xn

\* term(): the message of the projection's expect
NotInitialized == "TERM hasn't been initialized!"
\* TERM.lock() by the thread that runs the initializers returns only while no
\* guard is alive, its own included: std's Mutex is not reentrant.
CanLock == mutex = 0

\* is_initialized
is_initialized == cur_term # 0

HeapFree(hp, h) == [x \in (DOMAIN hp) \ {h} |-> hp[x]]
HeapAlloc(hp, h, e) == [x \in (DOMAIN hp) \cup {h} |-> IF x = h THEN e ELSE hp[x]]

\* The allocator hands out the lowest free address.
HasFree(hp) == Handles \ DOMAIN hp # {}
NewHandle(hp) == CHOOSE h \in Handles \ DOMAIN hp : \A g \in Handles \ DOMAIN hp : h <= g

\* A reset that deletes without looking at cur_term.
reset_unguarded(cur, hp) ==
    [cur_term |-> 0, heap |-> HeapFree(hp, cur), freed |-> TRUE]

\* A reset that does nothing.
reset_skip(cur, hp) ==
    [cur_term |-> cur, heap |-> hp, freed |-> FALSE]

\* reset: del_curterm(cur_term) and cur_term = null, if is_initialized().
reset(cur, hp) ==
    IF cur # 0
    THEN [cur_term |-> 0, heap |-> HeapFree(hp, cur), freed |-> TRUE]
    ELSE [cur_term |-> cur, heap |-> hp, freed |-> FALSE]


\* setup's final assignment that keeps an existing store on success.
SetupStore_reuse(old, ok) ==
    IF ok THEN (IF IsSome(old) THEN old ELSE Some(TermNew)) ELSE None

\* setup: *TERM.lock() = Some(Term::new()) on OK, = None otherwise.
SetupStore(old, ok) == IF ok THEN Some(TermNew) ELSE None

(***************************************************************************)
(* Shell variables and strings                                             *)
(***************************************************************************)
VarNames == {"TERM", "TERMINFO", "TERMINFO_DIRS", "fish_term256", "fish_term24bit",
             "STY", "COLORTERM", "KONSOLE_VERSION", "KONSOLE_PROFILE_NAME",
             "ITERM_SESSION_ID", "VTE_VERSION", "MC_SID", "TERM_PROGRAM",
             "TERM_PROGRAM_VERSION", "fish_emoji_width"}
Unset == [n \in VarNames |-> None]

\* vars.get(name).map(|v| v.as_string()); a name the environment does not hold is
\* an unset variable.
Get(vs, name) == IF name \in DOMAIN vs THEN vs[name] ELSE None
\* vars.get_unless_empty(name)
GetUnlessEmpty(vs, name) ==
    IF IsSome(Get(vs, name)) /\ Unwrap(Get(vs, name)) # <<>> THEN Get(vs, name) ELSE None
\* Option::unwrap_or
UnwrapOr(o, dflt) == IF IsSome(o) THEN Unwrap(o) ELSE dflt

\* wstr::starts_with
StartsWith(str, prefix) ==
    Len(str) >= Len(prefix) /\ SubSeq(str, 1, Len(prefix)) = prefix
\* wstr::find(needle).is_some()
Contains(str, needle) ==
    \E i \in 1..(Len(str) - Len(needle) + 1) :
        SubSeq(str, i, i + Len(needle) - 1) = needle

\* wcstringutil::bool_from_string: the value starts with one of "YTyt1".
bool_from_string(x) == x # <<>> /\ x[1] \in {"Y", "T", "y", "t", "1"}

Digits == <<"0", "1", "2", "3", "4", "5", "6", "7", "8", "9">>
IsDigit(ch) == \E d \in 1..Len(Digits) : Digits[d] = ch
DigitVal(ch) == (CHOOSE d \in 1..Len(Digits) : Digits[d] = ch) - 1
RECURSIVE ParseDigits(_, _)
ParseDigits(str, acc) ==
    IF str = <<>> THEN acc ELSE ParseDigits(Tail(str), acc * 10 + DigitVal(Head(str)))
\* wutil::fish_wcstoi: Ok(n) for a decimal number with an optional sign, Err for
\* anything else.
fish_wcstoi(str) ==
    LET signed == str # <<>> /\ Head(str) \in {"+", "-"}
        body == IF signed THEN Tail(str) ELSE str
    IN  IF body # <<>> /\ \A i \in 1..Len(body) : IsDigit(body[i])
        THEN Some(IF signed /\ Head(str) = "-"
                  THEN 0 - ParseDigits(body, 0) ELSE ParseDigits(body, 0))
        ELSE None

s_256color == <<"2","5","6","c","o","l","o","r">>
s_eterm == <<"e","t","e","r","m">>
s_eterm_color == <<"e","t","e","r","m","-","c","o","l","o","r">>
s_st_ == <<"s","t","-">>
s_st_256color == <<"s","t","-","2","5","6","c","o","l","o","r">>
s_truecolor == <<"t","r","u","e","c","o","l","o","r">>
s_24bit == <<"2","4","b","i","t">>
s_yes == <<"y","e","s">>
s_1 == <<"1">>
s_0 == <<"0">>
s_3600 == <<"3","6","0","0">>
s_3601 == <<"3","6","0","1">>
s_colon_id == <<"w","0",":","A">>
s_plain_id == <<"w","0">>

(***************************************************************************)
(* The color support resolver                                              *)
(***************************************************************************)
\* output.rs: bitflags ColorSupport
ColorSupport_NONE == 0
ColorSupport_TERM_256COLOR == 1
ColorSupport_TERM_24BIT == 2

\* The | of two bitflags values.
RECURSIVE BitOr(_, _)
BitOr(a, b) ==
    IF a = 0 THEN b
    ELSE IF b = 0 THEN a
    ELSE ((a % 2) + (b % 2) - ((a % 2) * (b % 2))) + 2 * BitOr(a \div 2, b \div 2)

TermOf(vs) == UnwrapOr(Get(vs, "TERM"), <<>>)

\* The 256-color chain with the terminfo test as > 256.
supports_256color_gt(vs, max_colors) ==
    IF IsSome(Get(vs, "fish_term256"))
    THEN bool_from_string(Unwrap(Get(vs, "fish_term256")))
    ELSE IF Contains(TermOf(vs), s_256color) THEN TRUE
    ELSE IF Contains(TermOf(vs), s_xterm) THEN TRUE
    ELSE IF IsSome(max_colors) THEN Unwrap(max_colors) > 256
    ELSE FALSE

\* update_fish_color_support: the if/else-if chain that assigns supports_256color
\* (initially false).
supports_256color(vs, max_colors) ==
    IF IsSome(Get(vs, "fish_term256"))
    THEN bool_from_string(Unwrap(Get(vs, "fish_term256")))
    ELSE IF Contains(TermOf(vs), s_256color) THEN TRUE
    ELSE IF Contains(TermOf(vs), s_xterm) THEN TRUE
    ELSE IF IsSome(max_colors) THEN Unwrap(max_colors) >= 256
    ELSE FALSE

\* The 24-bit chain with the terminfo test ahead of the screen/eterm test.
supports_24bit_terminfofirst(vs, max_colors) ==
    IF IsSome(Get(vs, "fish_term24bit"))
    THEN bool_from_string(Unwrap(Get(vs, "fish_term24bit")))
    ELSE IF UnwrapOr(max_colors, 0) > 32767 THEN TRUE
    ELSE IF IsSome(Get(vs, "STY")) \/ StartsWith(TermOf(vs), s_eterm) THEN FALSE
    ELSE IF IsSome(Get(vs, "COLORTERM"))
    THEN Unwrap(Get(vs, "COLORTERM")) = s_truecolor
            \/ Unwrap(Get(vs, "COLORTERM")) = s_24bit
    ELSE IF IsSome(Get(vs, "KONSOLE_VERSION")) \/ IsSome(Get(vs, "KONSOLE_PROFILE_NAME"))
    THEN TRUE
    ELSE IF IsSome(Get(vs, "ITERM_SESSION_ID"))
    THEN ~Contains(Unwrap(Get(vs, "ITERM_SESSION_ID")), <<":">>)
    ELSE IF StartsWith(TermOf(vs), s_st_) THEN TRUE
    ELSE IF IsSome(Get(vs, "VTE_VERSION"))
    THEN UnwrapOr(fish_wcstoi(Unwrap(Get(vs, "VTE_VERSION"))), 0) > 3600
    ELSE FALSE

\* The 24-bit chain in which a COLORTERM of another value falls through to the
\* rules below it.
supports_24bit_colortermfallthrough(vs, max_colors) ==
    IF IsSome(Get(vs, "fish_term24bit"))
    THEN bool_from_string(Unwrap(Get(vs, "fish_term24bit")))
    ELSE IF IsSome(Get(vs, "STY")) \/ StartsWith(TermOf(vs), s_eterm) THEN FALSE
    ELSE IF UnwrapOr(max_colors, 0) > 32767 THEN TRUE
    ELSE IF IsSome(Get(vs, "COLORTERM"))
            /\ (Unwrap(Get(vs, "COLORTERM")) = s_truecolor
                \/ Unwrap(Get(vs, "COLORTERM")) = s_24bit)
    THEN TRUE
    ELSE IF IsSome(Get(vs, "KONSOLE_VERSION")) \/ IsSome(Get(vs, "KONSOLE_PROFILE_NAME"))
    THEN TRUE
    ELSE IF IsSome(Get(vs, "ITERM_SESSION_ID"))
    THEN ~Contains(Unwrap(Get(vs, "ITERM_SESSION_ID")), <<":">>)
    ELSE IF StartsWith(TermOf(vs), s_st_) THEN TRUE
    ELSE IF IsSome(Get(vs, "VTE_VERSION"))
    THEN UnwrapOr(fish_wcstoi(Unwrap(Get(vs, "VTE_VERSION"))), 0) > 3600
    ELSE FALSE
\* update_fish_color_support: the if/else-if chain that assigns supports_24bit
\* (initially false).
supports_24bit(vs, max_colors) ==
    IF IsSome(Get(vs, "fish_term24bit"))
    THEN bool_from_string(Unwrap(Get(vs, "fish_term24bit")))
    ELSE IF IsSome(Get(vs, "STY")) \/ StartsWith(TermOf(vs), s_eterm) THEN FALSE
    ELSE IF UnwrapOr(max_colors, 0) > 32767 THEN TRUE
    ELSE IF IsSome(Get(vs, "COLORTERM"))
    THEN Unwrap(Get(vs, "COLORTERM")) = s_truecolor
            \/ Unwrap(Get(vs, "COLORTERM")) = s_24bit
    ELSE IF IsSome(Get(vs, "KONSOLE_VERSION")) \/ IsSome(Get(vs, "KONSOLE_PROFILE_NAME"))
    THEN TRUE
    ELSE IF IsSome(Get(vs, "ITERM_SESSION_ID"))
    THEN ~Contains(Unwrap(Get(vs, "ITERM_SESSION_ID")), <<":">>)
    ELSE IF StartsWith(TermOf(vs), s_st_) THEN TRUE
    ELSE IF IsSome(Get(vs, "VTE_VERSION"))
    THEN UnwrapOr(fish_wcstoi(Unwrap(Get(vs, "VTE_VERSION"))), 0) > 3600
    ELSE FALSE

\* update_fish_color_support: the value given to output_set_color_support.
ColorSupportBits(vs, max_colors) ==
    BitOr(IF supports_256color(vs, max_colors)
          THEN ColorSupport_TERM_256COLOR ELSE ColorSupport_NONE,
          IF supports_24bit(vs, max_colors)
          THEN ColorSupport_TERM_24BIT ELSE ColorSupport_NONE)

\* update_fish_color_support publishing the 256-color flag on its own: the
\* 24-bit bit keeps the value of the evaluation before.
update_fish_color_support_torn ==
    IF IsNone(TERM)
    THEN /\ panic' = NotInitialized
         /\ UNCHANGED color_support
    ELSE /\ color_support' =
                BitOr(IF supports_256color(vars, NumberLookup(tgetnum(cur_term, heap)))
                      THEN ColorSupport_TERM_256COLOR ELSE ColorSupport_NONE,
                      IF (color_support \div 2) % 2 = 1
                      THEN ColorSupport_TERM_24BIT ELSE ColorSupport_NONE)
         /\ UNCHANGED panic

\* update_fish_color_support keeping the value it computed at startup.
update_fish_color_support_cached ==
    IF IsNone(TERM)
    THEN /\ panic' = NotInitialized
         /\ UNCHANGED color_support
    ELSE /\ color_support' =
                (IF CURSES_INITIALIZED THEN color_support
                 ELSE ColorSupportBits(vars, NumberLookup(tgetnum(cur_term, heap))))
         /\ UNCHANGED panic

\* update_fish_color_support(vars): curses::term().get(curses::MAX_COLORS) panics
\* without a store; otherwise the flags are computed and published in one call.
update_fish_color_support ==
    IF IsNone(TERM)
    THEN /\ panic' = NotInitialized
         /\ UNCHANGED color_support
    ELSE /\ color_support' = ColorSupportBits(vars, NumberLookup(tgetnum(cur_term, heap)))
         /\ UNCHANGED panic

(***************************************************************************)
(* The variable dispatch table (VarDispatchTable, VAR_DISPATCH_TABLE).     *)
(* A HashMap is a function from the names to Option<callback>; a callback  *)
(* is the name of the function registered.                                 *)
(***************************************************************************)
LOCALE_VARIABLES ==
    <<"LANG", "LANGUAGE", "LC_ALL", "LC_COLLATE", "LC_CTYPE", "LC_MESSAGES",
      "LC_NUMERIC", "LC_TIME", "LOCPATH", "fish_allow_singlebyte_locale">>
CURSES_VARIABLES == <<"TERM", "TERMINFO", "TERMINFO_DIRS">>

Named(name, callback) == [shape |-> "named", name |-> name, callback |-> callback]
Anon(name, callback) == [shape |-> "anon", name |-> name, callback |-> callback]
\* for name in NAMES.iter() { table.add_anon(name, callback); }
AnonEach(names, callback) == [i \in 1..Len(names) |-> Anon(names[i], callback)]

\* The initializer with fish_allow_singlebyte_locale, one of LOCALE_VARIABLES,
\* registered once more among the individual calls.
REGISTRATIONS_twice ==
    AnonEach(LOCALE_VARIABLES, "handle_locale_change")
    \o AnonEach(CURSES_VARIABLES, "handle_curses_change")
    \o << Named("TZ", "handle_tz_change"),
          Anon("fish_term256", "handle_fish_term_change"),
          Anon("fish_term24bit", "handle_fish_term_change"),
          Anon("fish_escape_delay_ms", "update_wait_on_escape_ms"),
          Anon("fish_emoji_width", "guess_emoji_width"),
          Anon("fish_ambiguous_width", "handle_change_ambiguous_width"),
          Anon("LINES", "handle_term_size_change"),
          Anon("COLUMNS", "handle_term_size_change"),
          Anon("fish_complete_path", "handle_complete_path_change"),
          Anon("fish_function_path", "handle_function_path_change"),
          Anon("fish_read_limit", "handle_read_limit_change"),
          Anon("fish_history", "handle_fish_history_change"),
          Anon("fish_autosuggestion_enabled", "handle_autosuggestion_change"),
          Anon("fish_use_posix_spawn", "handle_fish_use_posix_spawn_change"),
          Anon("fish_trace", "handle_fish_trace"),
          Anon("fish_cursor_selection_mode", "handle_fish_cursor_selection_mode_change"),
          Anon("fish_allow_singlebyte_locale", "handle_locale_change") >>

\* The calls of add and add_anon in VAR_DISPATCH_TABLE's initializer, in order.
REGISTRATIONS ==
    AnonEach(LOCALE_VARIABLES, "handle_locale_change")
    \o AnonEach(CURSES_VARIABLES, "handle_curses_change")
    \o << Named("TZ", "handle_tz_change"),
          Anon("fish_term256", "handle_fish_term_change"),
          Anon("fish_term24bit", "handle_fish_term_change"),
          Anon("fish_escape_delay_ms", "update_wait_on_escape_ms"),
          Anon("fish_emoji_width", "guess_emoji_width"),
          Anon("fish_ambiguous_width", "handle_change_ambiguous_width"),
          Anon("LINES", "handle_term_size_change"),
          Anon("COLUMNS", "handle_term_size_change"),
          Anon("fish_complete_path", "handle_complete_path_change"),
          Anon("fish_function_path", "handle_function_path_change"),
          Anon("fish_read_limit", "handle_read_limit_change"),
          Anon("fish_history", "handle_fish_history_change"),
          Anon("fish_autosuggestion_enabled", "handle_autosuggestion_change"),
          Anon("fish_use_posix_spawn", "handle_fish_use_posix_spawn_change"),
          Anon("fish_trace", "handle_fish_trace"),
          Anon("fish_cursor_selection_mode", "handle_fish_cursor_selection_mode_change") >>

\* The keys a table can be asked about: the names registered and the shell's variables.
TableNames == {REGISTRATIONS[i].name : i \in 1..Len(REGISTRATIONS)} \cup VarNames

\* VarDispatchTable::default()
VarDispatchTable_default ==
    [named_table |-> [n \in TableNames |-> None],
     anon_table |-> [n \in TableNames |-> None]]

\* VarDispatchTable::add without the assertion.
add_noassert(table, name, callback) ==
    [table |-> [table EXCEPT !.named_table[name] = Some(callback)], ok |-> TRUE]

\* VarDispatchTable::add: the insert, then assert!(prev.is_none()); ok is false
\* when the assertion panics.
add(table, name, callback) ==
    [table |-> [table EXCEPT !.named_table[name] = Some(callback)],
     ok |-> IsNone(table.named_table[name])]

\* VarDispatchTable::add_anon
add_anon(table, name, callback) ==
    [table |-> [table EXCEPT !.anon_table[name] = Some(callback)],
     ok |-> IsNone(table.anon_table[name])]

\* One call of the initializer.
Register(table, r) ==
    IF r.shape = "named" THEN add(table, r.name, r.callback)
    ELSE add_anon(table, r.name, r.callback)

\* The initializer from its i-th call on: the table it returns, or ok false if a
\* call panicked.
RECURSIVE BuildFrom(_, _, _)
BuildFrom(table, rs, i) ==
    IF i > Len(rs) THEN [table |-> table, ok |-> TRUE]
    ELSE LET r == Register(table, rs[i])
         IN  IF r.ok THEN BuildFrom(r.table, rs, i + 1) ELSE r

Invoked(shape, callback, key) == [shape |-> shape, callback |-> callback, key |-> key]

\* VarDispatchTable::dispatch treating a name without a registration as a change
\* of the terminal.
dispatch_default(table, key) ==
    IF IsNone(table.named_table[key]) /\ IsNone(table.anon_table[key])
    THEN <<Invoked("anon", "handle_curses_change", key)>>
    ELSE (IF IsSome(table.named_table[key])
          THEN <<Invoked("named", Unwrap(table.named_table[key]), key)>> ELSE <<>>)
         \o (IF IsSome(table.anon_table[key])
             THEN <<Invoked("anon", Unwrap(table.anon_table[key]), key)>> ELSE <<>>)

\* VarDispatchTable::dispatch with the two lookups in the other order.
dispatch_anonfirst(table, key) ==
    (IF IsSome(table.anon_table[key])
     THEN <<Invoked("anon", Unwrap(table.anon_table[key]), key)>> ELSE <<>>)
    \o (IF IsSome(table.named_table[key])
        THEN <<Invoked("named", Unwrap(table.named_table[key]), key)>> ELSE <<>>)

\* VarDispatchTable::dispatch: the callbacks it invokes, in order.
dispatch(table, key) ==
    (IF IsSome(table.named_table[key])
     THEN <<Invoked("named", Unwrap(table.named_table[key]), key)>> ELSE <<>>)
    \o (IF IsSome(table.anon_table[key])
        THEN <<Invoked("anon", Unwrap(table.anon_table[key]), key)>> ELSE <<>>)

AlreadyObserving == "Already observing"
LazyPoisoned == "Lazy instance has previously been poisoned"

\* once_cell::sync::Lazy
LazyIncomplete == [state |-> "incomplete", value |-> VarDispatchTable_default]
LazyComplete(table) == [state |-> "complete", value |-> table]
LazyOf(state) == [state |-> state, value |-> VarDispatchTable_default]

\* A Lazy that lets a thread run the initializer while another is running it.
LazyClaims_unsynchronized(lz) == lz.state \in {"incomplete", "running"}
\* Lazy::force: the calling thread is the one that runs the initializer.
LazyClaims(lz) == lz.state = "incomplete"

\* Lazy::force by a thread on its own: the cell after the call.
Force(lz, rs) ==
    IF LazyClaims(lz)
    THEN LET b == BuildFrom(VarDispatchTable_default, rs, 1)
         IN  IF b.ok THEN LazyComplete(b.table) ELSE LazyOf("poisoned")
    ELSE lz

NoBuild == [table |-> VarDispatchTable_default, ri |-> 1, by |-> 0, runs |-> 0]
NoDispatch == [pc |-> "idle", key |-> "", log |-> <<>>, done |-> 0]

\* Nothing has touched VAR_DISPATCH_TABLE, which holds the initializer of the source.
TableIdle ==
    /\ regs = REGISTRATIONS
    /\ build = NoBuild
    /\ lazy = LazyIncomplete
    /\ disp = [t \in Threads |-> NoDispatch]
\* The label at which a callback starts.
HandlerEntry(callback) == callback

\* VarDispatchTable::dispatch: a callback returned (or there was none); the next
\* one is called, or dispatch returns.
Return ==
    /\ ipc = "return"
    /\ panic = ""
    /\ LET d == disp[Writer]
       IN  IF d.done + 1 < Len(d.log)
           THEN /\ disp' = [disp EXCEPT ![Writer].done = d.done + 1]
                /\ ipc' = HandlerEntry(d.log[d.done + 2].callback)
           ELSE /\ disp' = [disp EXCEPT ![Writer].done = Len(d.log), ![Writer].pc = "idle"]
                /\ ipc' = "idle"
    /\ UNCHANGED <<storeVars, worldVars, histVars, panic, concVars, envVars, color_support,
                   fbi, outsideVars, tried, flagVars, widthVars, regs, build, lazy>>
    /\ UNCHANGED startVars

(***************************************************************************)
(* The store's operations, called one after the other by one thread        *)
(***************************************************************************)

Names == {s_xterm_256color, s_xterm, s_ansi, s_dumb}
SetupArgs == {None, Some(s_xterm_256color), Some(s_xterm)}
SetVals == {SITM_ESC, DIM_ESC}
MirrorVars == {"TERM", "TERMINFO", "TERMINFO_DIRS"}
NoCode == <<0, 0, 0>>

NoOp == [op |-> "init", arg |-> None, cap |-> NoCode, sret |-> None, nret |-> None,
         bret |-> FALSE, freed |-> FALSE, native |-> FALSE, before |-> 0]
NoHistory == [c \in StringCaps |-> None]
NoCounts == [c \in StringCaps |-> 0]

\* curses::setup(term, fd)
setup(term) ==
    /\ panic = ""
    /\ LET r == reset(cur_term, heap)
           result == setupterm(term)
           ok == (result = OK)
       IN  /\ IF ok
              THEN /\ HasFree(r.heap)
                   /\ cur_term' = NewHandle(r.heap)
                   /\ heap' = HeapAlloc(r.heap, NewHandle(r.heap),
                                        TermInfo(Unwrap(TermArg(term))))
              ELSE /\ cur_term' = r.cur_term
                   /\ heap' = r.heap
           /\ TERM' = SetupStore(TERM, ok)
           /\ lastOp' = [NoOp EXCEPT !.op = "setup", !.arg = term, !.bret = ok,
                                     !.freed = r.freed,
                                     !.before = IF IsSome(TERM)
                                                THEN Len(Unwrap(TERM).overrides)
                                                ELSE 0]
    /\ lastSet' = NoHistory
    /\ nativeOk' = NoCounts
    /\ UNCHANGED <<db, penv, panic>>

\* curses::reset()
Reset ==
    /\ panic = ""
    /\ LET r == reset(cur_term, heap)
       IN  /\ cur_term' = r.cur_term
           /\ heap' = r.heap
           /\ lastOp' = [NoOp EXCEPT !.op = "reset", !.freed = r.freed]
    /\ UNCHANGED <<db, penv, TERM, panic, lastSet, nativeOk>>

\* term() on an empty store: the expect() in the projection panics.
TermPanics ==
    /\ panic = ""
    /\ IsNone(TERM)
    /\ panic' = NotInitialized
    /\ UNCHANGED <<cur_term, heap, db, penv, TERM, lastOp, lastSet, nativeOk>>

\* term().get(id) for a string capability
GetString(id) ==
    /\ panic = ""
    /\ IsSome(TERM)
    /\ LET answer == tgetstr(cur_term, heap, id)
           r == StringCapLookup(Unwrap(TERM), id, answer)
       IN  /\ TERM' = Some(r.term)
           /\ lastOp' = [NoOp EXCEPT !.op = "get_str", !.cap = id, !.sret = r.ret,
                                     !.native = r.native]
           /\ nativeOk' = [nativeOk EXCEPT ![id] =
                              IF r.native /\ IsSome(answer)
                              THEN Min(@ + 1, MaxCount) ELSE @]
    /\ UNCHANGED <<cur_term, heap, db, penv, panic, lastSet>>

\* term().get(MAX_COLORS)
GetNumber ==
    /\ panic = ""
    /\ IsSome(TERM)
    /\ lastOp' = [NoOp EXCEPT !.op = "get_num", !.cap = MAX_COLORS,
                              !.nret = NumberLookup(tgetnum(cur_term, heap)),
                              !.native = TRUE]
    /\ UNCHANGED <<cur_term, heap, db, penv, TERM, panic, lastSet, nativeOk>>

\* term().get(EAT_NEWLINE_GLITCH)
GetFlag ==
    /\ panic = ""
    /\ IsSome(TERM)
    /\ lastOp' = [NoOp EXCEPT !.op = "get_flag", !.cap = EAT_NEWLINE_GLITCH,
                              !.bret = tgetflag(cur_term, heap), !.native = TRUE]
    /\ UNCHANGED <<cur_term, heap, db, penv, TERM, panic, lastSet, nativeOk>>

\* term().set(id, value)
Set(id, value) ==
    /\ panic = ""
    /\ IsSome(TERM)
    /\ TERM' = Some(TermSet(Unwrap(TERM), id, value))
    /\ lastOp' = [NoOp EXCEPT !.op = "set", !.cap = id, !.sret = Some(value)]
    /\ lastSet' = [lastSet EXCEPT ![id] = Some(value)]
    /\ UNCHANGED <<cur_term, heap, db, penv, panic, nativeOk>>

StoreDbs == SUBSET {s_xterm_256color, s_xterm, s_ansi}
StoreTerms == {None, Some(s_xterm), Some(s_ansi)}

\* The statics before anything ran: TERM is Mutex::new(None), cur_term is null.
StoreInit ==
    /\ cur_term = 0
    /\ heap = <<>>
    /\ TERM = None
    /\ panic = ""
    /\ lastOp = NoOp
    /\ lastSet = NoHistory
    /\ nativeOk = NoCounts

ConcIdle ==
    /\ mutex = 0
    /\ poisoned = FALSE
    /\ tpc = [t \in Threads |-> "idle"]
    /\ tloc = [t \in Threads |-> 0]
    /\ targ = [t \in Threads |-> None]
    /\ tres = [t \in Threads |-> ERR]
    /\ uaf = FALSE

\* env/mod.rs, env_dispatch.rs: the AtomicBool statics start false.
FlagsInit ==
    /\ mc_hack = FALSE
    /\ CAN_SET_TERM_TITLE = FALSE
    /\ TERM_HAS_XN = FALSE
    /\ CURSES_INITIALIZED = FALSE

\* fallback::FISH_EMOJI_WIDTH starts as 1.
WidthInit == FISH_EMOJI_WIDTH = 1

\* env/mod.rs: the default of READ_BYTE_LIMIT, 100 MiB
DEFAULT_READ_BYTE_LIMIT == 100 * 1024 * 1024

\* The decimal digits of a number (usize values are kept as their digits: 2^64 is
\* beyond the checker's integers).
RECURSIVE ToDigits(_)
ToDigits(n) ==
    IF n < 10 THEN <<Digits[n + 1]>>
    ELSE Append(ToDigits(n \div 10), Digits[(n % 10) + 1])

s_C == <<"C">>
\* The locale of a process that has not called setlocale: "C" in every category.
CLocale == [LC_CTYPE |-> s_C, LC_NUMERIC |-> s_C, LC_MESSAGES |-> s_C]

\* The statics as they are constructed (READ_BYTE_LIMIT, USE_POSIX_SPAWN;
\* fallback::FISH_AMBIGUOUS_WIDTH starts as 1), no locale beyond "C" on the system.
StartupIdle ==
    /\ syslocales = {}
    /\ locale = CLocale
    /\ old_msg_locale = s_C
    /\ li = 1
    /\ setlocale_calls = <<>>
    /\ nl_msg_cat_cntr = 0
    /\ READ_BYTE_LIMIT = ToDigits(DEFAULT_READ_BYTE_LIMIT)
    /\ warnings = <<>>
    /\ interactive = FALSE
    /\ FISH_AMBIGUOUS_WIDTH = 1
    /\ USE_POSIX_SPAWN = FALSE
    /\ openbsd = FALSE
    /\ wait_on_escape_ms = None
    /\ trace_enabled = FALSE

\* A call of the source builtin: its inputs, where it is, and what it has done.
\* parse is what HelpOnlyCmdOpts::parse finds, file what the file system has
\* under the name given, entry the parser's state when the call began.
NoCall ==
    [args |-> <<>>, parse |-> "ok", stdin_fd |-> 0, stdin_tty |-> FALSE, file |-> "regular",
     pc |-> "none", fd |-> -1, func_filename |-> "", pushed |-> FALSE, argv_set |-> FALSE,
     saved |-> None, retval |-> 0, result |-> [ok |-> TRUE, status |-> 0],
     entry |-> [blocks |-> <<>>, current_filename |-> None, argv |-> <<>>]]

\* No call of source is running; the parser is at top level.
SourceIdle ==
    /\ frames = <<>>
    /\ blocks = <<>>
    /\ current_filename = None
    /\ argv = <<>>
    /\ lastcall = NoCall

\* No handler is running, no shell variable is set.
ShellIdle ==
    /\ vars = Unset
    /\ exported = {}
    /\ changes = 0
    /\ color_support = ColorSupport_NONE
    /\ ipc = "idle"
    /\ fbi = 1
    /\ macos = FALSE
    /\ tty = None
    /\ wcwidth_emoji = 1
    /\ FlagsInit
    /\ WidthInit
    /\ SourceIdle
    /\ StartupIdle
    /\ ran = <<>>
    /\ tried = <<>>
    /\ TableIdle

Init ==
    /\ StoreInit
    /\ db \in StoreDbs
    /\ penv \in [MirrorVars -> StoreTerms]
    /\ penv["TERMINFO"] = None
    /\ penv["TERMINFO_DIRS"] = None
    /\ ConcIdle
    /\ ShellIdle

Next ==
    \/ \E term \in SetupArgs : setup(term) /\ UNCHANGED notStore
    \/ Reset /\ UNCHANGED notStore
    \/ TermPanics /\ UNCHANGED notStore
    \/ \E id \in StringCaps : GetString(id) /\ UNCHANGED notStore
    \/ GetNumber /\ UNCHANGED notStore
    \/ GetFlag /\ UNCHANGED notStore
    \/ \E id \in StringCaps, value \in SetVals : Set(id, value) /\ UNCHANGED notStore

Spec == Init /\ [][Next]_allvars


(***************************************************************************)
(* The store used by several threads (specification SpecConc).  Thread 1   *)
(* owns variable mutation and is the only one that calls setup and reset;  *)
(* every thread may query.  setup and the queries are split at the points  *)
(* where the code takes and releases the lock and enters the native layer. *)
(***************************************************************************)
\* term(): TERM.lock().expect("Mutex poisoned!"), then the projection's expect.
\* A panic while the guard is alive poisons the mutex as the guard is dropped.
T_Term(t) ==
    /\ tpc[t] = "idle"
    /\ mutex = 0
    /\ IF poisoned
       THEN /\ tpc' = [tpc EXCEPT ![t] = "panicked"]
            /\ UNCHANGED <<mutex, poisoned>>
       ELSE IF IsNone(TERM)
       THEN /\ tpc' = [tpc EXCEPT ![t] = "panicked"]
            /\ poisoned' = TRUE
            /\ UNCHANGED mutex
       ELSE /\ tpc' = [tpc EXCEPT ![t] = "locked"]
            /\ mutex' = t
            /\ UNCHANGED poisoned
    /\ UNCHANGED <<storeVars, worldVars, histVars, panic, tloc, targ, tres, uaf>>

\* Flag::lookup enters tgetflag, which loads the cur_term pointer ...
T_NativeEnter(t) ==
    /\ tpc[t] = "locked"
    /\ tloc' = [tloc EXCEPT ![t] = cur_term]
    /\ tpc' = [tpc EXCEPT ![t] = "native"]
    /\ UNCHANGED <<storeVars, worldVars, histVars, panic, mutex, poisoned, targ, tres, uaf>>

\* ... and reads the TERMINAL behind it; the guard is dropped when the statement ends.
T_NativeLeave(t) ==
    /\ tpc[t] = "native"
    /\ uaf' = (uaf \/ (tloc[t] # 0 /\ tloc[t] \notin Live))
    /\ tloc' = [tloc EXCEPT ![t] = 0]
    /\ mutex' = 0
    /\ tpc' = [tpc EXCEPT ![t] = "idle"]
    /\ UNCHANGED <<storeVars, worldVars, histVars, panic, poisoned, targ, tres>>

\* setup, first statement: reset()
T_SetupReset(t, term) ==
    /\ t = Writer
    /\ tpc[t] = "idle"
    /\ LET r == reset(cur_term, heap)
       IN  /\ cur_term' = r.cur_term
           /\ heap' = r.heap
    /\ targ' = [targ EXCEPT ![t] = term]
    /\ tpc' = [tpc EXCEPT ![t] = "setup_reset"]
    /\ UNCHANGED <<TERM, worldVars, histVars, panic, mutex, poisoned, tloc, tres, uaf>>

\* setup, second statement: ffi::setupterm
T_SetupNative(t) ==
    /\ tpc[t] = "setup_reset"
    /\ LET result == setupterm(targ[t])
       IN  /\ tres' = [tres EXCEPT ![t] = result]
           /\ IF result = OK
              THEN /\ HasFree(heap)
                   /\ cur_term' = NewHandle(heap)
                   /\ heap' = HeapAlloc(heap, NewHandle(heap),
                                        TermInfo(Unwrap(TermArg(targ[t]))))
              ELSE UNCHANGED <<cur_term, heap>>
    /\ tpc' = [tpc EXCEPT ![t] = "setup_native"]
    /\ UNCHANGED <<TERM, worldVars, histVars, panic, mutex, poisoned, tloc, targ, uaf>>

\* setup, last statement: *TERM.lock().expect("Mutex poisoned!") = ...
T_SetupStore(t) ==
    /\ tpc[t] = "setup_native"
    /\ mutex = 0
    /\ IF poisoned
       THEN /\ tpc' = [tpc EXCEPT ![t] = "panicked"]
            /\ UNCHANGED TERM
       ELSE /\ TERM' = SetupStore(TERM, tres[t] = OK)
            /\ tpc' = [tpc EXCEPT ![t] = "idle"]
    /\ UNCHANGED <<cur_term, heap, worldVars, histVars, panic, mutex, poisoned, tloc,
                   targ, tres, uaf>>

\* reset() called on its own
T_Reset(t) ==
    /\ t = Writer
    /\ tpc[t] = "idle"
    /\ LET r == reset(cur_term, heap)
       IN  /\ cur_term' = r.cur_term
           /\ heap' = r.heap
    /\ UNCHANGED <<TERM, worldVars, histVars, panic, concVars>>

ConcArgs == {None, Some(s_xterm)}
notConc == <<envVars, color_support, ipc, fbi, outsideVars, flagVars, widthVars, tried,
             tableVars, startVars>>

ConcInit ==
    /\ StoreInit
    /\ db = {s_xterm_256color, s_xterm}
    /\ penv \in [MirrorVars -> {None, Some(s_xterm_256color), Some(s_ansi)}]
    /\ penv["TERMINFO"] = None
    /\ penv["TERMINFO_DIRS"] = None
    /\ ConcIdle
    /\ ShellIdle

ConcNext ==
    \/ \E t \in Threads : T_Term(t) /\ UNCHANGED notConc
    \/ \E t \in Threads : T_NativeEnter(t) /\ UNCHANGED notConc
    \/ \E t \in Threads : T_NativeLeave(t) /\ UNCHANGED notConc
    \/ \E t \in Threads, term \in ConcArgs : T_SetupReset(t, term) /\ UNCHANGED notConc
    \/ \E t \in Threads : T_SetupNative(t) /\ UNCHANGED notConc
    \/ \E t \in Threads : T_SetupStore(t) /\ UNCHANGED notConc
    \/ \E t \in Threads : T_Reset(t) /\ UNCHANGED notConc

SpecConc == ConcInit /\ [][ConcNext]_allvars

(***************************************************************************)
(* The resolver on its own (specification SpecColor): a change of          *)
(* fish_term256 or fish_term24bit is dispatched in an environment and on a *)
(* terminal drawn from the sets below.                                     *)
(***************************************************************************)
ColorTerms == {None, Some(s_xterm_256color), Some(s_xterm), Some(s_ansi),
               Some(s_eterm_color), Some(s_st_256color)}
ColorBools == {None, Some(s_1), Some(s_0), Some(<<>>)}
ColorPresence == {None, Some(s_1)}
ColorTermHints == {None, Some(s_truecolor), Some(s_24bit), Some(s_yes)}
ColorItermIds == {None, Some(s_colon_id), Some(s_plain_id)}
ColorVteVersions == {None, Some(s_3600), Some(s_3601), Some(s_yes)}
\* tgetnum answers for "Co"; -1 is "not found"
ColorMaxColors == {-1, 255, 256, 32767, 32768}

ColorEnvs ==
    {[Unset EXCEPT !["TERM"] = t, !["fish_term256"] = a, !["fish_term24bit"] = b,
                   !["STY"] = sty, !["COLORTERM"] = ct, !["KONSOLE_VERSION"] = kv,
                   !["KONSOLE_PROFILE_NAME"] = kp, !["ITERM_SESSION_ID"] = it,
                   !["VTE_VERSION"] = vte] :
        t \in ColorTerms, a \in ColorBools, b \in ColorBools, sty \in ColorPresence,
        ct \in ColorTermHints, kv \in ColorPresence, kp \in ColorPresence,
        it \in ColorItermIds, vte \in ColorVteVersions}

\* A store that a successful setup left, on a terminal with the given "Co".
ColorStores ==
    {[cur_term |-> 1, TERM |-> Some(TermNew),
      heap |-> <<[TermInfo(s_ansi) EXCEPT !.co = n]>>] : n \in ColorMaxColors}
\* No store: every setup failed.
NoStore == [cur_term |-> 0, TERM |-> None, heap |-> <<>>]

ColorInit ==
    /\ panic = ""
    /\ lastOp = NoOp
    /\ lastSet = NoHistory
    /\ nativeOk = NoCounts
    /\ db = {s_ansi}
    /\ penv = [n \in MirrorVars |-> None]
    /\ ConcIdle
    /\ exported = {}
    /\ changes = 0
    /\ color_support = ColorSupport_NONE
    /\ ipc = "handle_fish_term_change"
    /\ fbi = 1
    /\ macos = FALSE
    /\ tty = None
    /\ wcwidth_emoji = 1
    /\ FlagsInit
    /\ WidthInit
    /\ SourceIdle
    /\ StartupIdle
    /\ ran = <<>>
    /\ tried = <<>>
    /\ regs = REGISTRATIONS
    /\ build = NoBuild
    /\ lazy = Force(LazyIncomplete, REGISTRATIONS)
    /\ disp = [t \in Threads |->
                 IF t = Writer
                 THEN [pc |-> "callbacks", key |-> "fish_term256", done |-> 0,
                       log |-> dispatch(lazy.value, "fish_term256")]
                 ELSE NoDispatch]
    /\ vars \in ColorEnvs
    /\ \E st \in ColorStores \cup {NoStore} :
          /\ cur_term = st.cur_term
          /\ heap = st.heap
          /\ TERM = st.TERM

\* handle_fish_term_change: update_fish_color_support(vars), then
\* reader_schedule_prompt_repaint().
handle_fish_term_change ==
    /\ ipc = "handle_fish_term_change"
    /\ panic = ""
    /\ CanLock
    /\ update_fish_color_support
    /\ ipc' = (IF IsNone(TERM) THEN ipc ELSE "return")
    /\ UNCHANGED <<storeVars, worldVars, histVars, concVars, envVars, fbi, outsideVars, tried,
                   flagVars>>
    /\ UNCHANGED ran

ColorNext ==
    \/ handle_fish_term_change /\ UNCHANGED <<widthVars, tableVars, localeVars, settingVars>>
    \/ Return

SpecColor == ColorInit /\ [][ColorNext]_allvars

(***************************************************************************)
(* The curses initializer (specification SpecInit): init_curses runs at    *)
(* startup, statement by statement; afterwards the shell changes a         *)
(* variable and dispatches the change.  Diagnostics (FLOGF,                *)
(* is_interactive_session) change no state and are left out.               *)
(***************************************************************************)
s_screen == <<"s","c","r","e","e","n">>
s_tmux == <<"t","m","u","x">>
s_nxterm == <<"n","x","t","e","r","m">>
s_rxvt == <<"r","x","v","t">>
s_alacritty == <<"a","l","a","c","r","i","t","t","y">>
s_wezterm == <<"w","e","z","t","e","r","m">>
s_xterm_ == <<"x","t","e","r","m","-">>
s_screen_ == <<"s","c","r","e","e","n","-">>
s_tmux_ == <<"t","m","u","x","-">>
s_linux == <<"l","i","n","u","x">>
s_vt100 == <<"v","t","1","0","0">>
s_wsvt25 == <<"w","s","v","t","2","5">>
s_vt220 == <<"v","t","2","2","0">>
s_tty == <<"t","t","y">>
s_vc == <<"/","v","c","/">>
s_dev_pts_0 == <<"/","d","e","v","/","p","t","s","/","0">>
s_dev_tty1 == <<"/","d","e","v","/","t","t","y","1">>
s_Apple_Terminal == <<"A","p","p","l","e","_","T","e","r","m","i","n","a","l">>
s_iTerm_app == <<"i","T","e","r","m",".","a","p","p">>

FALLBACKS == <<s_xterm_256color, s_xterm, s_ansi, s_dumb>>
TITLE_TERMS == {s_xterm, s_screen, s_tmux, s_nxterm, s_rxvt, s_alacritty, s_wezterm}

\* str::parse::<i32>, the digits: checked_mul(10), then checked_add(d) for a
\* positive number and checked_sub(d) for a negative one.
RECURSIVE ParseChecked(_, _, _)
ParseChecked(str, acc, negative) ==
    IF str = <<>> THEN Some(acc)
    ELSE LET d == DigitVal(Head(str))
             most == IF negative /\ d > 0 THEN (I32Max - (d - 1)) \div 10
                     ELSE IF negative THEN I32Max \div 10
                     ELSE (I32Max - d) \div 10
         IN  IF negative
             THEN IF acc < 0 - most THEN None
                  ELSE ParseChecked(Tail(str), acc * 10 - d, negative)
             ELSE IF acc > most THEN None
                  ELSE ParseChecked(Tail(str), acc * 10 + d, negative)

\* str::parse::<i32>: an optional sign, then one or more decimal digits; Err on
\* anything else and on overflow.
ParseI32(str) ==
    LET signed == str # <<>> /\ Head(str) \in {"+", "-"}
        body == IF signed THEN Tail(str) ELSE str
    IN  IF body # <<>> /\ (\A i \in 1..Len(body) : IsDigit(body[i]))
        THEN ParseChecked(body, 0, signed /\ Head(str) = "-")
        ELSE None

\* Ord::clamp
Clamp(x, lo, hi) == IF x < lo THEN lo ELSE IF x > hi THEN hi ELSE x

s_terminfo_dir == <<"/","t","i">>
s_2 == <<"2">>

\* guess_emoji_width: the value stored in FISH_EMOJI_WIDTH.
guess_emoji_width(vs, wcw) ==
    IF IsSome(Get(vs, "fish_emoji_width"))
    THEN Clamp(UnwrapOr(fish_wcstoi(Unwrap(Get(vs, "fish_emoji_width"))), 1), 1, 2)
    ELSE LET term == UnwrapOr(Get(vs, "TERM_PROGRAM"), <<>>)
             version == UnwrapOr(IF IsSome(Get(vs, "TERM_PROGRAM_VERSION"))
                                 THEN ParseI32(Unwrap(Get(vs, "TERM_PROGRAM_VERSION")))
                                 ELSE None, 0)
         IN  IF term = s_Apple_Terminal /\ version >= 400 THEN 2
             ELSE IF term = s_iTerm_app THEN 2
             ELSE Clamp(wcw, 1, 2)
\* vars.getf_unless_empty(name, EnvMode::EXPORT)
GetfUnlessEmptyExport(vs, ex, name) ==
    IF name \in ex THEN GetUnlessEmpty(vs, name) ELSE None

\* init_curses, the loop over CURSES_VARIABLES: setenv_lock or unsetenv_lock.
MirrorCursesVars(pe, vs, ex) ==
    [n \in DOMAIN pe |->
        IF \E i \in 1..Len(CURSES_VARIABLES) : CURSES_VARIABLES[i] = n
        THEN GetfUnlessEmptyExport(vs, ex, n)
        ELSE pe[n]]

\* does_term_support_setting_title asking for the tty name of every terminal.
does_term_support_setting_title_ttyalways(vs, ttyname) ==
    IF IsNone(GetUnlessEmpty(vs, "TERM")) THEN FALSE
    ELSE LET term == Unwrap(GetUnlessEmpty(vs, "TERM"))
         IN  IF term \in {s_linux, s_dumb, s_vt100, s_wsvt25} THEN FALSE
             ELSE IF \/ IsNone(ttyname)
                     \/ Contains(UnwrapOr(ttyname, <<>>), s_tty)
                     \/ Contains(UnwrapOr(ttyname, <<>>), s_vc)
             THEN FALSE
             ELSE TRUE

\* does_term_support_setting_title
does_term_support_setting_title(vs, ttyname) ==
    IF IsNone(GetUnlessEmpty(vs, "TERM")) THEN FALSE
    ELSE LET term == Unwrap(GetUnlessEmpty(vs, "TERM"))
             recognized == \/ term \in TITLE_TERMS
                           \/ StartsWith(term, s_xterm_)
                           \/ StartsWith(term, s_screen_)
                           \/ StartsWith(term, s_tmux_)
         IN  IF recognized THEN TRUE
             ELSE IF term \in {s_linux, s_dumb, s_vt100, s_wsvt25} THEN FALSE
             ELSE IF \/ IsNone(ttyname)
                     \/ Contains(UnwrapOr(ttyname, <<>>), s_tty)
                     \/ Contains(UnwrapOr(ttyname, <<>>), s_vc)
             THEN FALSE
             ELSE TRUE

\* apply_term_hacks: if term.get(id).is_none() { term.set(id, esc) }
HackCap(term, id, esc, answer) ==
    LET r == StringCapLookup(term, id, answer)
    IN  IF IsNone(r.ret) THEN TermSet(r.term, id, esc) ELSE r.term

\* apply_term_hacks: the macOS block is compiled in, the terminal program is
\* Terminal.app or iTerm and TERM is xterm-256color.
HacksApply(vs, mac) ==
    /\ mac
    /\ UnwrapOr(Get(vs, "TERM_PROGRAM"), <<>>) \in {s_Apple_Terminal, s_iTerm_app}
    /\ Get(vs, "TERM") = Some(s_xterm_256color)

HackCaps == <<ENTER_ITALICS_MODE, EXIT_ITALICS_MODE, ENTER_DIM_MODE>>
HackEscs == <<SITM_ESC, RITM_ESC, DIM_ESC>>

RECURSIVE HackAll(_, _, _, _)
HackAll(term, i, cur, hp) ==
    IF i > Len(HackCaps) THEN term
    ELSE HackAll(HackCap(term, HackCaps[i], HackEscs[i], tgetstr(cur, hp, HackCaps[i])),
                 i + 1, cur, hp)

\* init_curses: the loop over CURSES_VARIABLES
IC_Mirror ==
    /\ ipc = "init_curses"
    /\ panic = ""
    /\ penv' = MirrorCursesVars(penv, vars, exported)
    /\ ipc' = "setup"
    /\ tried' = <<>>
    /\ UNCHANGED <<storeVars, db, histVars, panic, concVars, envVars, color_support, fbi,
                   outsideVars, flagVars>>
    /\ UNCHANGED ran

\* init_curses: if !curses::setup(None, STDOUT_FILENO) { ...fallbacks... }
IC_Setup ==
    /\ ipc = "setup"
    /\ CanLock
    /\ setup(None)
    /\ ipc' = (IF lastOp'.bret THEN "apply_term_hacks" ELSE "fallbacks")
    /\ fbi' = 1
    /\ tried' = Append(tried, [name |-> None, ok |-> lastOp'.bret])
    /\ UNCHANGED <<concVars, envVars, color_support, outsideVars, flagVars>>
    /\ UNCHANGED ran

\* initialize_curses_using_fallbacks: the loop is over
IC_FallbacksEnd ==
    /\ ipc = "fallbacks"
    /\ panic = ""
    /\ fbi > Len(FALLBACKS)
    /\ ipc' = "apply_term_hacks"
    /\ UNCHANGED <<storeVars, worldVars, histVars, panic, concVars, envVars, color_support,
                   fbi, outsideVars, tried, flagVars>>
    /\ UNCHANGED ran

\* initialize_curses_using_fallbacks: if termstr == term { continue; }
IC_FallbackSkip ==
    /\ ipc = "fallbacks"
    /\ panic = ""
    /\ fbi <= Len(FALLBACKS)
    /\ UnwrapOr(GetUnlessEmpty(vars, "TERM"), <<>>) = FALLBACKS[fbi]
    /\ fbi' = fbi + 1
    /\ UNCHANGED <<storeVars, worldVars, histVars, panic, concVars, envVars, color_support,
                   ipc, outsideVars, tried, flagVars>>
    /\ UNCHANGED ran

\* initialize_curses_using_fallbacks without the break after a success.
IC_FallbackTry_nobreak ==
    /\ ipc = "fallbacks"
    /\ CanLock
    /\ fbi <= Len(FALLBACKS)
    /\ UnwrapOr(GetUnlessEmpty(vars, "TERM"), <<>>) # FALLBACKS[fbi]
    /\ setup(Some(FALLBACKS[fbi]))
    /\ ipc' = ipc
    /\ tried' = Append(tried, [name |-> Some(FALLBACKS[fbi]), ok |-> lastOp'.bret])
    /\ fbi' = fbi + 1
    /\ UNCHANGED <<concVars, envVars, color_support, outsideVars, flagVars>>
    /\ UNCHANGED ran

\* initialize_curses_using_fallbacks assigning the fallback name to $TERM.
IC_FallbackTry_setsterm ==
    /\ ipc = "fallbacks"
    /\ CanLock
    /\ fbi <= Len(FALLBACKS)
    /\ UnwrapOr(GetUnlessEmpty(vars, "TERM"), <<>>) # FALLBACKS[fbi]
    /\ setup(Some(FALLBACKS[fbi]))
    /\ ipc' = (IF lastOp'.bret THEN "apply_term_hacks" ELSE ipc)
    /\ tried' = Append(tried, [name |-> Some(FALLBACKS[fbi]), ok |-> lastOp'.bret])
    /\ fbi' = (IF lastOp'.bret THEN fbi ELSE fbi + 1)
    /\ vars' = (IF lastOp'.bret THEN [vars EXCEPT !["TERM"] = Some(FALLBACKS[fbi])] ELSE vars)
    /\ UNCHANGED <<concVars, exported, changes, color_support, outsideVars, flagVars>>
    /\ UNCHANGED ran

\* initialize_curses_using_fallbacks: curses::setup(Some(term), ..); break on success
IC_FallbackTry ==
    /\ ipc = "fallbacks"
    /\ CanLock
    /\ fbi <= Len(FALLBACKS)
    /\ UnwrapOr(GetUnlessEmpty(vars, "TERM"), <<>>) # FALLBACKS[fbi]
    /\ setup(Some(FALLBACKS[fbi]))
    /\ ipc' = (IF lastOp'.bret THEN "apply_term_hacks" ELSE ipc)
    /\ tried' = Append(tried, [name |-> Some(FALLBACKS[fbi]), ok |-> lastOp'.bret])
    /\ fbi' = (IF lastOp'.bret THEN fbi ELSE fbi + 1)
    /\ UNCHANGED <<concVars, envVars, color_support, outsideVars, flagVars>>
    /\ UNCHANGED ran

\* apply_term_hacks up to `let term = curses::term();`: the guard is taken there
\* and lives to the end of the innermost block.
IC_ApplyTermHacks ==
    /\ ipc = "apply_term_hacks"
    /\ panic = ""
    /\ mc_hack' = (mc_hack \/ IsSome(Get(vars, "MC_SID")))
    /\ IF is_initialized /\ HacksApply(vars, macos)
       THEN /\ CanLock
            /\ mutex' = Writer
            /\ ipc' = "patch"
       ELSE /\ ipc' = "title"
            /\ UNCHANGED mutex
    /\ UNCHANGED <<storeVars, worldVars, histVars, panic, poisoned, threadVars, envVars,
                   color_support, fbi, outsideVars, tried, CAN_SET_TERM_TITLE, TERM_HAS_XN,
                   CURSES_INITIALIZED>>
    /\ UNCHANGED ran

\* apply_term_hacks: the three `if term.get(id).is_none() { term.set(id, esc) }`
\* under the one guard, which is dropped at the end of the block.  The first
\* get panics on a store that is None; unwinding drops the guard and poisons
\* the mutex.
IC_Patch ==
    /\ ipc = "patch"
    /\ panic = ""
    /\ mutex' = 0
    /\ IF IsNone(TERM)
       THEN /\ panic' = NotInitialized
            /\ poisoned' = TRUE
            /\ UNCHANGED <<TERM, lastSet, nativeOk, ipc>>
       ELSE LET t2 == HackAll(Unwrap(TERM), 1, cur_term, heap)
            IN  /\ TERM' = Some(t2)
                /\ lastSet' = [c \in StringCaps |->
                       IF IsNone(tgetstr(cur_term, heap, c))
                          /\ ~InTable(Unwrap(TERM), c)
                       THEN Some(t2.overrides[binary_search_by(t2.overrides, c).idx + 1][2])
                       ELSE lastSet[c]]
                /\ nativeOk' = [c \in StringCaps |->
                       IF IsSome(tgetstr(cur_term, heap, c))
                          /\ ~InTable(Unwrap(TERM), c)
                       THEN Min(nativeOk[c] + 1, MaxCount) ELSE nativeOk[c]]
                /\ ipc' = "title"
                /\ UNCHANGED <<panic, poisoned>>
    /\ UNCHANGED <<cur_term, heap, worldVars, lastOp, threadVars, envVars, color_support, fbi,
                   outsideVars, tried, flagVars>>
    /\ UNCHANGED ran

\* init_curses storing the 'curses initialized' flag together with the title flag.
IC_Title_marks ==
    /\ ipc = "title"
    /\ panic = ""
    /\ CAN_SET_TERM_TITLE' = does_term_support_setting_title(vars, tty)
    /\ CURSES_INITIALIZED' = TRUE
    /\ ipc' = "xn"
    /\ UNCHANGED <<storeVars, worldVars, histVars, panic, concVars, envVars, color_support,
                   fbi, outsideVars, tried, mc_hack, TERM_HAS_XN>>
    /\ UNCHANGED ran

\* init_curses: CAN_SET_TERM_TITLE.store(does_term_support_setting_title(vars))
IC_Title ==
    /\ ipc = "title"
    /\ panic = ""
    /\ CAN_SET_TERM_TITLE' = does_term_support_setting_title(vars, tty)
    /\ ipc' = "xn"
    /\ UNCHANGED <<storeVars, worldVars, histVars, panic, concVars, envVars, color_support,
                   fbi, outsideVars, tried, mc_hack, TERM_HAS_XN, CURSES_INITIALIZED>>
    /\ UNCHANGED ran

\* init_curses without the read of the newline-glitch flag.
IC_Xn_keep ==
    /\ ipc = "xn"
    /\ panic = ""
    /\ ipc' = "color"
    /\ UNCHANGED <<storeVars, worldVars, histVars, panic, concVars, envVars, color_support, fbi,
                   outsideVars, tried, flagVars>>
    /\ UNCHANGED ran

\* init_curses: if curses::is_initialized() { let term = curses::term(); ... }
IC_Xn ==
    /\ ipc = "xn"
    /\ panic = ""
    /\ IF is_initialized
       THEN /\ CanLock
            /\ mutex' = Writer
            /\ ipc' = "xn_get"
       ELSE /\ ipc' = "color"
            /\ UNCHANGED mutex
    /\ UNCHANGED <<storeVars, worldVars, histVars, panic, poisoned, threadVars, envVars,
                   color_support, fbi, outsideVars, tried, flagVars>>
    /\ UNCHANGED ran

\* The read of the flag with the guard kept alive after the block.
IC_XnGet_holds ==
    /\ ipc = "xn_get"
    /\ panic = ""
    /\ IsSome(TERM)
    /\ TERM_HAS_XN' = tgetflag(cur_term, heap)
    /\ ipc' = "color"
    /\ UNCHANGED <<storeVars, worldVars, histVars, panic, concVars, envVars, color_support, fbi,
                   outsideVars, tried, mc_hack, CAN_SET_TERM_TITLE, CURSES_INITIALIZED>>
    /\ UNCHANGED ran

\* init_curses: TERM_HAS_XN.store(term.get(EAT_NEWLINE_GLITCH)), then the block
\* ends and the guard is dropped.  The get panics on a store that is None.
IC_XnGet ==
    /\ ipc = "xn_get"
    /\ panic = ""
    /\ mutex' = 0
    /\ IF IsNone(TERM)
       THEN /\ panic' = NotInitialized
            /\ poisoned' = TRUE
            /\ UNCHANGED <<TERM_HAS_XN, ipc>>
       ELSE /\ TERM_HAS_XN' = tgetflag(cur_term, heap)
            /\ ipc' = "color"
            /\ UNCHANGED <<panic, poisoned>>
    /\ UNCHANGED <<storeVars, worldVars, histVars, threadVars, envVars, color_support, fbi,
                   outsideVars, tried, mc_hack, CAN_SET_TERM_TITLE, CURSES_INITIALIZED>>
    /\ UNCHANGED ran

\* init_curses: update_fish_color_support(vars)
IC_Color ==
    /\ ipc = "color"
    /\ panic = ""
    /\ CanLock
    /\ update_fish_color_support
    /\ ipc' = (IF IsNone(TERM) THEN ipc ELSE "done")
    /\ UNCHANGED <<storeVars, worldVars, histVars, concVars, envVars, fbi, outsideVars, tried,
                   flagVars>>
    /\ ran' = (IF IsNone(TERM) THEN ran ELSE Append(ran, "update_fish_color_support"))

\* init_curses: screen_clear_layout_cache_ffi(); CURSES_INITIALIZED.store(true)
IC_Done ==
    /\ ipc = "done"
    /\ panic = ""
    /\ CURSES_INITIALIZED' = TRUE
    /\ ipc' = (IF disp[Writer].pc = "idle" THEN "run_inits" ELSE "return")
    /\ UNCHANGED <<storeVars, worldVars, histVars, panic, concVars, envVars, color_support,
                   fbi, outsideVars, tried, mc_hack, CAN_SET_TERM_TITLE, TERM_HAS_XN>>
    /\ ran' = Append(ran, "init_curses")

\* run_inits returning after guess_emoji_width.
RI_guess_emoji_width_returns ==
    /\ ipc = "run_inits"
    /\ panic = ""
    /\ FISH_EMOJI_WIDTH' = guess_emoji_width(vars, wcwidth_emoji)
    /\ ipc' = "idle"
    /\ UNCHANGED <<storeVars, worldVars, histVars, panic, concVars, envVars, color_support,
                   fbi, outsideVars, tried, flagVars, tableVars>>
    /\ ran' = Append(ran, "guess_emoji_width")
    /\ UNCHANGED <<localeVars, settingVars>>

\* run_inits, after init_curses: guess_emoji_width(vars)
RI_guess_emoji_width ==
    /\ ipc = "run_inits"
    /\ panic = ""
    /\ FISH_EMOJI_WIDTH' = guess_emoji_width(vars, wcwidth_emoji)
    /\ ipc' = "update_wait_on_escape_ms"
    /\ UNCHANGED <<storeVars, worldVars, histVars, panic, concVars, envVars, color_support,
                   fbi, outsideVars, tried, flagVars, tableVars>>
    /\ ran' = Append(ran, "guess_emoji_width")
    /\ UNCHANGED <<localeVars, settingVars>>

\* The shell changes a variable and calls env_dispatch_var_change(name, vars).
SetVar(name, value) ==
    /\ ipc = "idle"
    /\ panic = ""
    /\ changes < MaxChanges
    /\ vars[name] # value
    /\ vars' = [vars EXCEPT ![name] = value]
    /\ changes' = changes + 1
    /\ ipc' = "env_dispatch_var_change"
    /\ disp' = [disp EXCEPT ![Writer] = [pc |-> "force", key |-> name, log |-> <<>>,
                                         done |-> 0]]
    /\ UNCHANGED <<storeVars, worldVars, histVars, panic, concVars, exported, color_support,
                   fbi, outsideVars, tried, flagVars, widthVars, regs, build, lazy>>
    /\ ran' = <<>>
    /\ UNCHANGED <<localeVars, settingVars>>

\* env_dispatch_var_change: VAR_DISPATCH_TABLE.dispatch(key, vars), up to the call
\* of the first callback.
env_dispatch_var_change ==
    /\ ipc = "env_dispatch_var_change"
    /\ panic = ""
    /\ LET lz == Force(lazy, regs)
           cbs == dispatch(lz.value, disp[Writer].key)
       IN  /\ lazy' = lz
           /\ IF lz.state = "poisoned"
              THEN /\ panic' = AlreadyObserving
                   /\ UNCHANGED <<ipc, disp>>
              ELSE /\ disp' = [disp EXCEPT ![Writer].pc = "callbacks", ![Writer].log = cbs]
                   /\ ipc' = (IF cbs = <<>> THEN "return"
                              ELSE HandlerEntry(cbs[1].callback))
                   /\ UNCHANGED panic
    /\ UNCHANGED <<storeVars, worldVars, histVars, concVars, envVars, color_support,
                   fbi, outsideVars, tried, flagVars, widthVars, regs, build>>
    /\ UNCHANGED startVars

\* handle_curses_change: guess_emoji_width(vars); init_curses(vars) follows.
handle_curses_change ==
    /\ ipc = "handle_curses_change"
    /\ panic = ""
    /\ FISH_EMOJI_WIDTH' = guess_emoji_width(vars, wcwidth_emoji)
    /\ ipc' = "init_curses"
    /\ UNCHANGED <<storeVars, worldVars, histVars, panic, concVars, envVars, color_support,
                   fbi, outsideVars, tried, flagVars, tableVars>>
    /\ UNCHANGED startVars

\* guess_emoji_width, called as the callback of fish_emoji_width.
CB_guess_emoji_width ==
    /\ ipc = "guess_emoji_width"
    /\ panic = ""
    /\ FISH_EMOJI_WIDTH' = guess_emoji_width(vars, wcwidth_emoji)
    /\ ipc' = "return"
    /\ UNCHANGED <<storeVars, worldVars, histVars, panic, concVars, envVars, color_support,
                   fbi, outsideVars, tried, flagVars, tableVars>>
    /\ UNCHANGED startVars

\* Where a handler goes when it returns: run_inits calls the next one, a dispatch
\* gets control back.
Continue(next) == IF disp[Writer].pc = "idle" THEN next ELSE "return"

\* update_wait_on_escape_ms; the value is parsed on the other side of the ffi call.
update_wait_on_escape_ms ==
    /\ ipc = "update_wait_on_escape_ms"
    /\ panic = ""
    /\ wait_on_escape_ms' = GetUnlessEmpty(vars, "fish_escape_delay_ms")
    /\ ran' = Append(ran, "update_wait_on_escape_ms")
    /\ ipc' = Continue("handle_read_limit_change")
    /\ UNCHANGED <<storeVars, worldVars, histVars, panic, concVars, envVars, color_support,
                   fbi, outsideVars, tried, flagVars, widthVars, tableVars, localeVars,
                   READ_BYTE_LIMIT, warnings, interactive, FISH_AMBIGUOUS_WIDTH,
                   USE_POSIX_SPAWN, openbsd, trace_enabled>>

\* usize::MAX of a 64-bit target, as digits
UsizeMaxDigits ==
    <<"1","8","4","4","6","7","4","4","0","7","3","7","0","9","5","5","1","6","1","5">>

\* Comparison of two digit strings of the same length.
RECURSIVE DigitsLeq(_, _)
DigitsLeq(a, b) ==
    IF a = <<>> THEN TRUE
    ELSE IF DigitVal(Head(a)) # DigitVal(Head(b)) THEN DigitVal(Head(a)) < DigitVal(Head(b))
    ELSE DigitsLeq(Tail(a), Tail(b))

RECURSIVE StripZeros(_)
StripZeros(str) ==
    IF Len(str) > 1 /\ Head(str) = "0" THEN StripZeros(Tail(str)) ELSE str

\* str::parse::<usize>: an optional "+", then one or more decimal digits; Err on
\* anything else (a "-" too) and on a value above usize::MAX.
ParseUsize(str) ==
    LET body == IF str # <<>> /\ Head(str) = "+" THEN Tail(str) ELSE str
        value == StripZeros(body)
    IN  IF body # <<>> /\ (\A i \in 1..Len(body) : IsDigit(body[i]))
           /\ (Len(value) < Len(UsizeMaxDigits)
               \/ (Len(value) = Len(UsizeMaxDigits) /\ DigitsLeq(value, UsizeMaxDigits)))
        THEN Some(value)
        ELSE None

IgnoringInvalidReadLimit == "Ignoring invalid $fish_read_limit"

\* handle_read_limit_change that takes an unparseable value for zero.
handle_read_limit_change_zero ==
    /\ ipc = "handle_read_limit_change"
    /\ panic = ""
    /\ LET v == GetUnlessEmpty(vars, "fish_read_limit")
           parsed == IF IsSome(v) THEN Some(UnwrapOr(ParseUsize(Unwrap(v)), s_0)) ELSE None
       IN  /\ READ_BYTE_LIMIT' = UnwrapOr(parsed, ToDigits(DEFAULT_READ_BYTE_LIMIT))
           /\ UNCHANGED warnings
    /\ ran' = Append(ran, "handle_read_limit_change")
    /\ ipc' = Continue("handle_fish_use_posix_spawn_change")
    /\ UNCHANGED <<storeVars, worldVars, histVars, panic, concVars, envVars, color_support,
                   fbi, outsideVars, tried, flagVars, widthVars, tableVars, localeVars,
                   interactive, FISH_AMBIGUOUS_WIDTH, USE_POSIX_SPAWN, openbsd,
                   wait_on_escape_ms, trace_enabled>>

\* handle_read_limit_change
handle_read_limit_change ==
    /\ ipc = "handle_read_limit_change"
    /\ panic = ""
    /\ LET v == GetUnlessEmpty(vars, "fish_read_limit")
           parsed == IF IsSome(v) THEN ParseUsize(Unwrap(v)) ELSE None
       IN  /\ READ_BYTE_LIMIT' = UnwrapOr(parsed, ToDigits(DEFAULT_READ_BYTE_LIMIT))
           /\ warnings' = (IF IsSome(v) /\ IsNone(parsed) /\ interactive
                           THEN Append(warnings, IgnoringInvalidReadLimit)
                           ELSE warnings)
    /\ ran' = Append(ran, "handle_read_limit_change")
    /\ ipc' = Continue("handle_fish_use_posix_spawn_change")
    /\ UNCHANGED <<storeVars, worldVars, histVars, panic, concVars, envVars, color_support,
                   fbi, outsideVars, tried, flagVars, widthVars, tableVars, localeVars,
                   interactive, FISH_AMBIGUOUS_WIDTH, USE_POSIX_SPAWN, openbsd,
                   wait_on_escape_ms, trace_enabled>>

\* allow_use_posix_spawn
allow_use_posix_spawn == ~openbsd

\* handle_fish_use_posix_spawn_change
handle_fish_use_posix_spawn_change ==
    /\ ipc = "handle_fish_use_posix_spawn_change"
    /\ panic = ""
    /\ USE_POSIX_SPAWN' =
          (IF ~allow_use_posix_spawn THEN FALSE
           ELSE IF IsSome(Get(vars, "fish_use_posix_spawn"))
           THEN \/ Unwrap(Get(vars, "fish_use_posix_spawn")) = <<>>
                \/ bool_from_string(Unwrap(Get(vars, "fish_use_posix_spawn")))
           ELSE TRUE)
    /\ ran' = Append(ran, "handle_fish_use_posix_spawn_change")
    /\ ipc' = Continue("handle_fish_trace")
    /\ UNCHANGED <<storeVars, worldVars, histVars, panic, concVars, envVars, color_support,
                   fbi, outsideVars, tried, flagVars, widthVars, tableVars, localeVars,
                   READ_BYTE_LIMIT, warnings, interactive, FISH_AMBIGUOUS_WIDTH, openbsd,
                   wait_on_escape_ms, trace_enabled>>

\* handle_fish_trace; as the last call of run_inits it ends env_dispatch_init.
handle_fish_trace ==
    /\ ipc = "handle_fish_trace"
    /\ panic = ""
    /\ trace_enabled' = IsSome(GetUnlessEmpty(vars, "fish_trace"))
    /\ ran' = Append(ran, "handle_fish_trace")
    /\ ipc' = Continue("idle")
    /\ UNCHANGED <<storeVars, worldVars, histVars, panic, concVars, envVars, color_support,
                   fbi, outsideVars, tried, flagVars, widthVars, tableVars, localeVars,
                   READ_BYTE_LIMIT, warnings, interactive, FISH_AMBIGUOUS_WIDTH,
                   USE_POSIX_SPAWN, openbsd, wait_on_escape_ms>>

\* handle_change_ambiguous_width without the clamp.
handle_change_ambiguous_width_noclamp ==
    /\ ipc = "handle_change_ambiguous_width"
    /\ panic = ""
    /\ FISH_AMBIGUOUS_WIDTH' =
          (IF IsSome(Get(vars, "fish_ambiguous_width"))
           THEN UnwrapOr(fish_wcstoi(Unwrap(Get(vars, "fish_ambiguous_width"))), 0)
           ELSE 1)
    /\ ipc' = "return"
    /\ UNCHANGED <<storeVars, worldVars, histVars, panic, concVars, envVars, color_support,
                   fbi, outsideVars, tried, flagVars, widthVars, tableVars, ran, localeVars,
                   READ_BYTE_LIMIT, warnings, interactive, USE_POSIX_SPAWN, openbsd,
                   wait_on_escape_ms, trace_enabled>>

\* handle_change_ambiguous_width
handle_change_ambiguous_width ==
    /\ ipc = "handle_change_ambiguous_width"
    /\ panic = ""
    /\ FISH_AMBIGUOUS_WIDTH' =
          Clamp(IF IsSome(Get(vars, "fish_ambiguous_width"))
                THEN UnwrapOr(fish_wcstoi(Unwrap(Get(vars, "fish_ambiguous_width"))), 0)
                ELSE 1, 1, 2)
    /\ ipc' = "return"
    /\ UNCHANGED <<storeVars, worldVars, histVars, panic, concVars, envVars, color_support,
                   fbi, outsideVars, tried, flagVars, widthVars, tableVars, ran, localeVars,
                   READ_BYTE_LIMIT, warnings, interactive, USE_POSIX_SPAWN, openbsd,
                   wait_on_escape_ms, trace_enabled>>

\* The variables the shell changes after startup, and the values it gives them.
InitChanges ==
    [n \in {"TERM", "TERMINFO", "fish_term256", "fish_term24bit", "COLORTERM",
            "fish_emoji_width"} |->
        CASE n = "TERM" -> {None, Some(s_xterm_256color), Some(s_vt220), Some(s_dumb)}
          [] n = "TERMINFO" -> {None, Some(s_terminfo_dir)}
          [] n = "COLORTERM" -> {None, Some(s_truecolor)}
          [] n = "fish_emoji_width" -> {None, Some(s_2)}
          [] OTHER -> {None, Some(s_1)}]

InitDbs == {{}, {s_dumb}, {s_xterm, s_dumb}, {s_vt220}, {s_xterm_256color, s_xterm, s_ansi, s_dumb}}
InitTerms == {None, Some(s_xterm_256color), Some(s_dumb), Some(s_vt220)}
InitTtys == {None, Some(s_dev_pts_0)}
InitWcwidths == {1, 2}
InitEnvs ==
    {[Unset EXCEPT !["TERM"] = t, !["TERM_PROGRAM"] = tp, !["MC_SID"] = mc] :
        t \in InitTerms, tp \in {None, Some(s_Apple_Terminal)}, mc \in ColorPresence}

InitInit ==
    /\ StoreInit
    /\ db \in InitDbs
    /\ penv = [n \in MirrorVars |-> IF n = "TERM" THEN Some(s_xterm) ELSE None]
    /\ ConcIdle
    /\ vars \in InitEnvs
    /\ exported \in {{}, {"TERM"}}
    /\ changes = 0
    /\ color_support = ColorSupport_NONE
    /\ ipc = "init_curses"
    /\ fbi = 1
    /\ macos \in BOOLEAN
    /\ tty \in InitTtys
    /\ wcwidth_emoji \in InitWcwidths
    /\ FlagsInit
    /\ WidthInit
    /\ SourceIdle
    /\ StartupIdle
    /\ ran = <<"init_locale">>
    /\ tried = <<>>
    /\ TableIdle

\* What init_curses and the color handler leave alone.
notCurses == <<widthVars, tableVars, localeVars, settingVars>>

InitNext ==
    \/ IC_Mirror /\ UNCHANGED notCurses
    \/ IC_Setup /\ UNCHANGED notCurses
    \/ IC_FallbacksEnd /\ UNCHANGED notCurses
    \/ IC_FallbackSkip /\ UNCHANGED notCurses
    \/ IC_FallbackTry /\ UNCHANGED notCurses
    \/ IC_ApplyTermHacks /\ UNCHANGED notCurses
    \/ IC_Patch /\ UNCHANGED notCurses
    \/ IC_Title /\ UNCHANGED notCurses
    \/ IC_Xn /\ UNCHANGED notCurses
    \/ IC_XnGet /\ UNCHANGED notCurses
    \/ IC_Color /\ UNCHANGED notCurses
    \/ IC_Done /\ UNCHANGED notCurses
    \/ RI_guess_emoji_width
    \/ update_wait_on_escape_ms
    \/ handle_read_limit_change
    \/ handle_fish_use_posix_spawn_change
    \/ handle_fish_trace
    \/ \E name \in DOMAIN InitChanges : \E value \in InitChanges[name] : SetVar(name, value)
    \/ env_dispatch_var_change
    \/ Return
    \/ handle_fish_term_change /\ UNCHANGED notCurses
    \/ handle_curses_change
    \/ CB_guess_emoji_width

SpecInit == InitInit /\ [][InitNext]_allvars

(***************************************************************************)
(* The locale initializer, init_locale, statement by statement.  The       *)
(* process locale has three of its categories; a locale can be loaded if   *)
(* it is "C", "POSIX" or one the system has (syslocales).                  *)
(***************************************************************************)
s_POSIX == <<"P","O","S","I","X">>
s_UTF_8 == <<"U","T","F","-","8">>
s_utf8 == <<"u","t","f","8">>
s_C_UTF_8 == <<"C",".">> \o s_UTF_8
s_en_US_UTF_8 == <<"e","n","_","U","S",".">> \o s_UTF_8
s_en_GB_UTF_8 == <<"e","n","_","G","B",".">> \o s_UTF_8
s_de_DE_UTF_8 == <<"d","e","_","D","E",".">> \o s_UTF_8
s_C_utf8 == <<"C",".">> \o s_utf8
s_fr_FR == <<"f","r","_","F","R">>
s_ja_JP_eucJP == <<"j","a","_","J","P",".","e","u","c","J","P">>
s_xx_XX == <<"x","x","_","X","X">>

\* init_locale: const UTF8_LOCALES
UTF8_LOCALES ==
    <<s_C_UTF_8, s_en_US_UTF_8, s_en_GB_UTF_8, s_de_DE_UTF_8, s_C_utf8, s_UTF_8>>

Categories == {"LC_CTYPE", "LC_NUMERIC", "LC_MESSAGES"}

\* str::ends_with
EndsWith(str, suffix) ==
    Len(str) >= Len(suffix)
    /\ SubSeq(str, Len(str) - Len(suffix) + 1, Len(str)) = suffix

\* compat::MB_CUR_MAX(): the longest multi-byte character of the LC_CTYPE
\* locale's encoding (UTF-8: 4, EUC-JP: 3, the single-byte encodings: 1).
MB_CUR_MAX(loc) ==
    IF EndsWith(loc.LC_CTYPE, s_UTF_8) \/ EndsWith(loc.LC_CTYPE, s_utf8) THEN 4
    ELSE IF loc.LC_CTYPE = s_ja_JP_eucJP THEN 3
    ELSE 1

\* getenv
Getenv(pe, name) == IF name \in DOMAIN pe THEN pe[name] ELSE None

\* The locale name the process environment gives a category: LC_ALL, else the
\* category's own variable, else LANG, else "C"; empty values do not count.
EnvLocale(pe, cat) ==
    IF UnwrapOr(Getenv(pe, "LC_ALL"), <<>>) # <<>> THEN Unwrap(Getenv(pe, "LC_ALL"))
    ELSE IF UnwrapOr(Getenv(pe, cat), <<>>) # <<>> THEN Unwrap(Getenv(pe, cat))
    ELSE IF UnwrapOr(Getenv(pe, "LANG"), <<>>) # <<>> THEN Unwrap(Getenv(pe, "LANG"))
    ELSE s_C

Loadable(sys, name) == name \in {s_C, s_POSIX} \cup sys

\* libc::setlocale(LC_ALL, ""): Some(the new locale), or None for the null pointer
\* it returns, changing nothing, when a category's locale cannot be loaded.
setlocale_env(sys, pe) ==
    IF \A cat \in Categories : Loadable(sys, EnvLocale(pe, cat))
    THEN Some([cat \in Categories |-> EnvLocale(pe, cat)])
    ELSE None

\* libc::setlocale(category, name)
setlocale(sys, loc, cat, name) ==
    IF Loadable(sys, name) THEN [loc EXCEPT ![cat] = name] ELSE loc

\* init_locale: let fix_locale = ...
fix_locale(vs) ==
    IF IsSome(GetUnlessEmpty(vs, "fish_allow_singlebyte_locale"))
    THEN ~bool_from_string(Unwrap(GetUnlessEmpty(vs, "fish_allow_singlebyte_locale")))
    ELSE TRUE

\* The loop over LOCALE_VARIABLES that leaves a variable the shell does not
\* export as the process environment has it.
MirrorLocaleVars_keep(pe, vs, ex) ==
    [n \in DOMAIN pe |->
        IF (\E i \in 1..Len(LOCALE_VARIABLES) : LOCALE_VARIABLES[i] = n)
           /\ IsSome(GetfUnlessEmptyExport(vs, ex, n))
        THEN GetfUnlessEmptyExport(vs, ex, n)
        ELSE pe[n]]

\* init_locale, the loop over LOCALE_VARIABLES: setenv_lock or unsetenv_lock.
MirrorLocaleVars(pe, vs, ex) ==
    [n \in DOMAIN pe |->
        IF \E i \in 1..Len(LOCALE_VARIABLES) : LOCALE_VARIABLES[i] = n
        THEN GetfUnlessEmptyExport(vs, ex, n)
        ELSE pe[n]]

\* What init_locale leaves alone besides the process environment.
notLocale == <<storeVars, db, histVars, concVars, envVars, color_support, fbi, outsideVars,
               tried, flagVars, widthVars, tableVars, settingVars, syslocales>>

\* handle_locale_change: the call of init_locale; guess_emoji_width follows it.
handle_locale_change ==
    /\ ipc = "handle_locale_change"
    /\ panic = ""
    /\ ipc' = "init_locale"
    /\ UNCHANGED <<notLocale, penv, panic, ran, locale, old_msg_locale, li, setlocale_calls,
                   nl_msg_cat_cntr>>

\* init_locale: old_msg_locale = setlocale(LC_MESSAGES, null), then the loop over
\* LOCALE_VARIABLES.
IL_Mirror ==
    /\ ipc = "init_locale"
    /\ panic = ""
    /\ old_msg_locale' = locale.LC_MESSAGES
    /\ penv' = MirrorLocaleVars(penv, vars, exported)
    /\ setlocale_calls' = <<>>
    /\ li' = 1
    /\ ipc' = "setlocale"
    /\ UNCHANGED <<notLocale, panic, ran, locale, nl_msg_cat_cntr>>

\* CStr::from_ptr on the null pointer
NullLocale == "CStr::from_ptr(null)"

\* init_locale entering the probe loop whatever fix_locale and MB_CUR_MAX say.
IL_Setlocale_probes ==
    /\ ipc = "setlocale"
    /\ panic = ""
    /\ LET r == setlocale_env(syslocales, penv)
       IN  /\ locale' = UnwrapOr(r, locale)
           /\ ipc' = "probe"
           /\ UNCHANGED panic
    /\ UNCHANGED <<notLocale, penv, ran, old_msg_locale, li, setlocale_calls, nl_msg_cat_cntr>>

\* init_locale: CStr::from_ptr(setlocale(LC_ALL, "")), then
\* if fix_locale && MB_CUR_MAX() == 1.  from_ptr on the null pointer of a failed
\* setlocale is undefined: the process dies there, or goes on.
IL_Setlocale ==
    /\ ipc = "setlocale"
    /\ panic = ""
    /\ LET r == setlocale_env(syslocales, penv)
       IN  /\ locale' = UnwrapOr(r, locale)
           /\ \/ /\ IsNone(r)
                 /\ panic' = NullLocale
                 /\ UNCHANGED ipc
              \/ /\ ipc' = (IF fix_locale(vars) /\ MB_CUR_MAX(locale') = 1
                            THEN "probe" ELSE "numeric")
                 /\ UNCHANGED panic
    /\ UNCHANGED <<notLocale, penv, ran, old_msg_locale, li, setlocale_calls, nl_msg_cat_cntr>>

\* The probe loop without the break after a success.
IL_Probe_nobreak ==
    /\ ipc = "probe"
    /\ panic = ""
    /\ li <= Len(UTF8_LOCALES)
    /\ locale' = setlocale(syslocales, locale, "LC_CTYPE", UTF8_LOCALES[li])
    /\ setlocale_calls' = Append(setlocale_calls, UTF8_LOCALES[li])
    /\ li' = li + 1
    /\ UNCHANGED <<notLocale, penv, panic, ran, old_msg_locale, nl_msg_cat_cntr, ipc>>

\* init_locale, for locale in UTF8_LOCALES: setlocale(LC_CTYPE, locale); break if
\* MB_CUR_MAX() > 1.
IL_Probe ==
    /\ ipc = "probe"
    /\ panic = ""
    /\ li <= Len(UTF8_LOCALES)
    /\ locale' = setlocale(syslocales, locale, "LC_CTYPE", UTF8_LOCALES[li])
    /\ setlocale_calls' = Append(setlocale_calls, UTF8_LOCALES[li])
    /\ IF MB_CUR_MAX(locale') > 1
       THEN ipc' = "numeric" /\ UNCHANGED li
       ELSE li' = li + 1 /\ UNCHANGED ipc
    /\ UNCHANGED <<notLocale, penv, panic, ran, old_msg_locale, nl_msg_cat_cntr>>

\* init_locale: the list is exhausted ("Failed to fix locale.").
IL_ProbeEnd ==
    /\ ipc = "probe"
    /\ panic = ""
    /\ li > Len(UTF8_LOCALES)
    /\ ipc' = "numeric"
    /\ UNCHANGED <<notLocale, penv, panic, ran, locale, old_msg_locale, li, setlocale_calls,
                   nl_msg_cat_cntr>>

\* init_locale without its setlocale(LC_NUMERIC, "C").
IL_Finish_keepsnumeric ==
    /\ ipc = "numeric"
    /\ panic = ""
    /\ nl_msg_cat_cntr' = (IF ~macos /\ old_msg_locale # locale.LC_MESSAGES
                           THEN nl_msg_cat_cntr + 1 ELSE nl_msg_cat_cntr)
    /\ ran' = Append(ran, "init_locale")
    /\ ipc' = (IF disp[Writer].pc = "idle" THEN "init_curses" ELSE "guess_emoji_width")
    /\ UNCHANGED <<notLocale, penv, panic, locale, old_msg_locale, li, setlocale_calls>>

\* init_locale with _nl_msg_cat_cntr += 1 outside the comparison of the names.
IL_Finish_alwaysbumps ==
    /\ ipc = "numeric"
    /\ panic = ""
    /\ locale' = setlocale(syslocales, locale, "LC_NUMERIC", s_C)
    /\ nl_msg_cat_cntr' = (IF ~macos THEN nl_msg_cat_cntr + 1 ELSE nl_msg_cat_cntr)
    /\ ran' = Append(ran, "init_locale")
    /\ ipc' = (IF disp[Writer].pc = "idle" THEN "init_curses" ELSE "guess_emoji_width")
    /\ UNCHANGED <<notLocale, penv, panic, old_msg_locale, li, setlocale_calls>>

\* init_locale: setlocale(LC_NUMERIC, "C"), new_msg_locale = setlocale(LC_MESSAGES,
\* null), _nl_msg_cat_cntr += 1 if the name changed (not compiled on macOS).
\* invalidate_numeric_locale and fish_setlocale keep their state outside this model.
IL_Finish ==
    /\ ipc = "numeric"
    /\ panic = ""
    /\ locale' = setlocale(syslocales, locale, "LC_NUMERIC", s_C)
    /\ nl_msg_cat_cntr' = (IF ~macos /\ old_msg_locale # locale'.LC_MESSAGES
                           THEN nl_msg_cat_cntr + 1 ELSE nl_msg_cat_cntr)
    /\ ran' = Append(ran, "init_locale")
    /\ ipc' = (IF disp[Writer].pc = "idle" THEN "init_curses" ELSE "guess_emoji_width")
    /\ UNCHANGED <<notLocale, penv, panic, old_msg_locale, li, setlocale_calls>>

(***************************************************************************)
(* Startup and the handlers of the configuration variables (specification  *)
(* SpecStart): env_dispatch_init calls run_inits, which begins with        *)
(* init_locale; afterwards the shell changes a variable and dispatches the *)
(* change.                                                                 *)
(***************************************************************************)
s_abc == <<"a","b","c">>
s_1024 == <<"1","0","2","4">>
s_007 == <<"0","0","7">>
s_plus5 == <<"+","5">>
s_minus1 == <<"-","1">>
s_3 == <<"3">>
\* usize::MAX + 1
s_2pow64 ==
    <<"1","8","4","4","6","7","4","4","0","7","3","7","0","9","5","5","1","6","1","6">>

\* The names the process environment is asked about.
TrackedNames == {LOCALE_VARIABLES[i] : i \in 1..Len(LOCALE_VARIABLES)} \cup MirrorVars
\* The shell variables of this specification.
StartNames ==
    {"TERM", "TERM_PROGRAM", "LANG", "LC_ALL", "fish_allow_singlebyte_locale", "fish_read_limit",
     "fish_ambiguous_width", "fish_emoji_width", "fish_escape_delay_ms",
     "fish_use_posix_spawn", "fish_trace"}
StartUnset == [n \in StartNames |-> None]

StartLangs == {None, Some(s_fr_FR), Some(s_en_US_UTF_8), Some(s_xx_XX)}
StartLcAlls == {None, Some(s_ja_JP_eucJP)}
StartAllows == {None, Some(s_1), Some(s_0)}
StartTermPrograms == {None, Some(s_Apple_Terminal)}
StartExports == {StartNames, {"TERM", "fish_allow_singlebyte_locale"}}
StartSyslocales ==
    {{s_fr_FR, s_ja_JP_eucJP},
     {s_fr_FR, s_ja_JP_eucJP, s_en_GB_UTF_8, s_de_DE_UTF_8},
     {s_fr_FR, s_ja_JP_eucJP, s_C_UTF_8, s_en_US_UTF_8}}
\* The process environment the shell was started with.
StartPenvs ==
    {[n \in TrackedNames |-> None],
     [n \in TrackedNames |->
        CASE n = "TERM" -> Some(s_xterm)
          [] n = "LANG" -> Some(s_en_US_UTF_8)
          [] n = "LC_MESSAGES" -> Some(s_fr_FR)
          [] OTHER -> None]}
StartReadLimits ==
    {None, Some(<<>>), Some(s_abc), Some(s_1024), Some(s_007), Some(s_plus5), Some(s_minus1),
     Some(s_0), Some(UsizeMaxDigits), Some(s_2pow64)}
StartWcwidths == {-1, 1, 2}
StartTerms == {None, Some(s_xterm_256color)}
StartDbs == {{}, {s_xterm_256color, s_xterm, s_ansi, s_dumb}}

\* The variables the shell changes after startup, and the values it gives them.
StartChanges ==
    [n \in {"LANG", "fish_allow_singlebyte_locale", "fish_read_limit", "fish_ambiguous_width",
            "fish_emoji_width", "fish_escape_delay_ms", "fish_use_posix_spawn", "fish_trace",
            "TERM"} |->
        CASE n = "LANG" -> {None, Some(s_en_US_UTF_8)}
          [] n = "fish_read_limit" -> {Some(s_abc), Some(s_1024)}
          [] n = "fish_ambiguous_width" ->
                {None, Some(<<>>), Some(s_0), Some(s_2), Some(s_3), Some(s_abc), Some(s_minus1)}
          [] n = "fish_emoji_width" -> {Some(s_0), Some(s_3), Some(s_abc), Some(s_minus1)}
          [] n = "fish_use_posix_spawn" -> {Some(<<>>), Some(s_0)}
          [] n = "TERM" -> {None}
          [] OTHER -> {Some(s_1)}]

\* The statics as constructed, on a system and in a session drawn from the sets.
StartStatics ==
    /\ StoreInit
    /\ ConcIdle
    /\ changes = 0
    /\ color_support = ColorSupport_NONE
    /\ ipc = "init_locale"
    /\ fbi = 1
    /\ tty = None
    /\ FlagsInit
    /\ WidthInit
    /\ SourceIdle
    /\ tried = <<>>
    /\ TableIdle
    /\ ran = <<>>
    /\ locale = CLocale
    /\ old_msg_locale = s_C
    /\ li = 1
    /\ setlocale_calls = <<>>
    /\ nl_msg_cat_cntr = 0
    /\ READ_BYTE_LIMIT = ToDigits(DEFAULT_READ_BYTE_LIMIT)
    /\ warnings = <<>>
    /\ FISH_AMBIGUOUS_WIDTH = 1
    /\ USE_POSIX_SPAWN = FALSE
    /\ wait_on_escape_ms = None
    /\ trace_enabled = FALSE

\* Sessions that differ in the locale variables and in the locales of the system.
StartLocaleInit ==
    /\ StartStatics
    /\ db = {s_xterm_256color, s_xterm, s_ansi, s_dumb}
    /\ penv \in StartPenvs
    /\ syslocales \in StartSyslocales
    /\ exported \in StartExports
    /\ \E lang \in StartLangs, lc_all \in StartLcAlls, allow \in StartAllows,
          prog \in StartTermPrograms :
          vars = [StartUnset EXCEPT !["TERM"] = Some(s_xterm_256color), !["LANG"] = lang,
                                    !["LC_ALL"] = lc_all,
                                    !["fish_allow_singlebyte_locale"] = allow,
                                    !["TERM_PROGRAM"] = prog]
    /\ macos \in BOOLEAN
    /\ wcwidth_emoji = 1
    /\ interactive = FALSE
    /\ openbsd = FALSE

\* Sessions that differ in the configuration variables and in the terminal.
StartSettingsInit ==
    /\ StartStatics
    /\ db \in StartDbs
    /\ penv = [n \in TrackedNames |-> IF n = "TERM" THEN Some(s_xterm) ELSE None]
    /\ syslocales = {s_fr_FR, s_ja_JP_eucJP, s_C_UTF_8, s_en_US_UTF_8}
    /\ exported = StartNames
    /\ \E term \in StartTerms, limit \in StartReadLimits, amb \in {None, Some(s_2)} :
          vars = [StartUnset EXCEPT !["TERM"] = term, !["fish_read_limit"] = limit,
                                    !["fish_ambiguous_width"] = amb]
    /\ macos = FALSE
    /\ wcwidth_emoji \in StartWcwidths
    /\ interactive \in BOOLEAN
    /\ openbsd \in BOOLEAN

StartInit == StartLocaleInit \/ StartSettingsInit

StartNext ==
    \/ IL_Mirror
    \/ IL_Setlocale
    \/ IL_Probe
    \/ IL_ProbeEnd
    \/ IL_Finish
    \/ IC_Mirror /\ UNCHANGED notCurses
    \/ IC_Setup /\ UNCHANGED notCurses
    \/ IC_FallbacksEnd /\ UNCHANGED notCurses
    \/ IC_FallbackSkip /\ UNCHANGED notCurses
    \/ IC_FallbackTry /\ UNCHANGED notCurses
    \/ IC_ApplyTermHacks /\ UNCHANGED notCurses
    \/ IC_Patch /\ UNCHANGED notCurses
    \/ IC_Title /\ UNCHANGED notCurses
    \/ IC_Xn /\ UNCHANGED notCurses
    \/ IC_XnGet /\ UNCHANGED notCurses
    \/ IC_Color /\ UNCHANGED notCurses
    \/ IC_Done /\ UNCHANGED notCurses
    \/ RI_guess_emoji_width
    \/ update_wait_on_escape_ms
    \/ handle_read_limit_change
    \/ handle_fish_use_posix_spawn_change
    \/ handle_fish_trace
    \/ \E name \in DOMAIN StartChanges : \E value \in StartChanges[name] : SetVar(name, value)
    \/ env_dispatch_var_change
    \/ Return
    \/ handle_locale_change
    \/ handle_curses_change
    \/ handle_change_ambiguous_width
    \/ CB_guess_emoji_width

SpecStart == StartInit /\ [][StartNext]_allvars

(***************************************************************************)
(* The title heuristic on its own (specification SpecTitle): init_curses   *)
(* is at its call of does_term_support_setting_title, with TERM and the    *)
(* name of the controlling tty drawn from the sets below.                  *)
(***************************************************************************)
s_xtermit == <<"x","t","e","r","m","i","t">>
s_screen_256color == s_screen_ \o s_256color
s_tmux_256color == s_tmux_ \o s_256color
s_dev_vc_1 == <<"/","d","e","v","/","v","c","/","1">>
TitleTerms ==
    {None, Some(<<>>), Some(s_xterm_256color), Some(s_screen_256color),
     Some(s_tmux_256color), Some(s_linux), Some(s_dumb), Some(s_vt100), Some(s_wsvt25),
     Some(s_vt220), Some(s_ansi), Some(s_st_256color), Some(s_eterm_color), Some(s_xtermit)}
        \cup {Some(t) : t \in TITLE_TERMS}
TitleTtys == {None, Some(s_dev_pts_0), Some(s_dev_tty1), Some(s_dev_vc_1)}

TitleInit ==
    /\ StoreInit
    /\ db = {s_ansi}
    /\ penv = [n \in MirrorVars |-> None]
    /\ ConcIdle
    /\ vars \in {[Unset EXCEPT !["TERM"] = t] : t \in TitleTerms}
    /\ exported = {}
    /\ changes = 0
    /\ color_support = ColorSupport_NONE
    /\ ipc = "title"
    /\ fbi = 1
    /\ macos = FALSE
    /\ tty \in TitleTtys
    /\ wcwidth_emoji = 1
    /\ FlagsInit
    /\ WidthInit
    /\ SourceIdle
    /\ StartupIdle
    /\ ran = <<>>
    /\ tried = <<>>
    /\ TableIdle

TitleNext == IC_Title /\ UNCHANGED notCurses

SpecTitle == TitleInit /\ [][TitleNext]_allvars

(***************************************************************************)
(* The dispatch table used by several threads (specification SpecTable).   *)
(* The initializer makes the registrations of the source or a short        *)
(* sequence of calls of add and add_anon; every thread calls               *)
(* env_dispatch_var_change, whose first step forces the Lazy.  A callback  *)
(* is recorded when it is invoked; what it does is left out here.          *)
(***************************************************************************)
\* Calls of add and add_anon an initializer can make.
RegEntries ==
    {Named("TZ", "handle_tz_change"), Named("TZ", "handle_timezone"),
     Anon("TZ", "handle_locale_change"), Anon("TERM", "handle_curses_change"),
     Anon("TERM", "handle_fish_term_change")}
RECURSIVE RegSeqs(_)
RegSeqs(n) ==
    IF n = 0 THEN {<<>>}
    ELSE RegSeqs(n - 1) \cup {Append(rs, r) : rs \in RegSeqs(n - 1), r \in RegEntries}
RegPrograms == RegSeqs(MaxRegs) \cup {REGISTRATIONS}
\* The keys the threads dispatch.
DispatchKeys == {"TZ", "TERM", "COLORTERM"}

notTable == <<storeVars, worldVars, histVars, concVars, envVars, color_support, ipc, fbi,
              outsideVars, flagVars, widthVars, tried, startVars>>

\* env_dispatch_var_change(key, vars) is called.
D_Call(t, key) ==
    /\ disp[t].pc = "idle"
    /\ disp' = [disp EXCEPT ![t] = [pc |-> "force", key |-> key, log |-> <<>>, done |-> 0]]
    /\ UNCHANGED <<regs, build, lazy, panic>>

\* Lazy::force: the cell is empty and this thread starts the initializer:
\* let mut table = VarDispatchTable::default();
D_ForceStart(t) ==
    /\ disp[t].pc = "force"
    /\ LazyClaims(lazy)
    /\ lazy' = LazyOf("running")
    /\ build' = [table |-> VarDispatchTable_default, ri |-> 1, by |-> t,
                 runs |-> Min(build.runs + 1, MaxCount)]
    /\ disp' = [disp EXCEPT ![t].pc = "building"]
    /\ UNCHANGED <<regs, panic>>

\* The initializer's next call of add or add_anon; a failed assertion unwinds the
\* thread and leaves the Lazy poisoned.
D_Register(t) ==
    /\ disp[t].pc = "building"
    /\ build.by = t
    /\ build.ri <= Len(regs)
    /\ LET r == Register(build.table, regs[build.ri])
       IN  IF r.ok
           THEN /\ build' = [build EXCEPT !.table = r.table, !.ri = build.ri + 1]
                /\ UNCHANGED <<lazy, disp, panic>>
           ELSE /\ build' = [build EXCEPT !.table = r.table]
                /\ lazy' = LazyOf("poisoned")
                /\ disp' = [disp EXCEPT ![t].pc = "panicked"]
                /\ panic' = AlreadyObserving
    /\ UNCHANGED regs

\* The initializer returns the table; the Lazy holds it from now on.
D_ForceEnd(t) ==
    /\ disp[t].pc = "building"
    /\ build.by = t
    /\ build.ri > Len(regs)
    /\ lazy' = LazyComplete(build.table)
    /\ disp' = [disp EXCEPT ![t].pc = "dispatch"]
    /\ UNCHANGED <<regs, build, panic>>

\* Lazy::force: the cell holds the table.
D_ForceReady(t) ==
    /\ disp[t].pc = "force"
    /\ lazy.state = "complete"
    /\ disp' = [disp EXCEPT ![t].pc = "dispatch"]
    /\ UNCHANGED <<regs, build, lazy, panic>>

\* Lazy::force: the initializer panicked earlier.
D_ForcePoisoned(t) ==
    /\ disp[t].pc = "force"
    /\ lazy.state = "poisoned"
    /\ disp' = [disp EXCEPT ![t].pc = "panicked"]
    /\ panic' = LazyPoisoned
    /\ UNCHANGED <<regs, build, lazy>>

\* VarDispatchTable::dispatch(key, vars) on the table of the Lazy.
D_Dispatch(t) ==
    /\ disp[t].pc = "dispatch"
    /\ LET cbs == dispatch(lazy.value, disp[t].key)
       IN  disp' = [disp EXCEPT ![t].log = cbs, ![t].done = Len(cbs), ![t].pc = "idle"]
    /\ UNCHANGED <<regs, build, lazy, panic>>

TableInit ==
    /\ StoreInit
    /\ db = {}
    /\ penv = [n \in MirrorVars |-> None]
    /\ ConcIdle
    /\ vars = Unset
    /\ exported = {}
    /\ changes = 0
    /\ color_support = ColorSupport_NONE
    /\ ipc = "idle"
    /\ fbi = 1
    /\ macos = FALSE
    /\ tty = None
    /\ wcwidth_emoji = 1
    /\ FlagsInit
    /\ WidthInit
    /\ SourceIdle
    /\ StartupIdle
    /\ ran = <<>>
    /\ tried = <<>>
    /\ regs \in RegPrograms
    /\ build = NoBuild
    /\ lazy = LazyIncomplete
    /\ disp = [t \in Threads |-> NoDispatch]

TableNext ==
    \/ \E t \in Threads, key \in DispatchKeys : D_Call(t, key) /\ UNCHANGED notTable
    \/ \E t \in Threads : D_ForceStart(t) /\ UNCHANGED notTable
    \/ \E t \in Threads : D_Register(t) /\ UNCHANGED notTable
    \/ \E t \in Threads : D_ForceEnd(t) /\ UNCHANGED notTable
    \/ \E t \in Threads : D_ForceReady(t) /\ UNCHANGED notTable
    \/ \E t \in Threads : D_ForcePoisoned(t) /\ UNCHANGED notTable
    \/ \E t \in Threads : D_Dispatch(t) /\ UNCHANGED notTable

SpecTable == TableInit /\ [][TableNext]_allvars
(***************************************************************************)
(* The source builtin (specification SpecSource).  A call runs from its    *)
(* argument checks to its return; reader_read may evaluate a script that   *)
(* calls source again.  Messages on streams.err are left out.              *)
(***************************************************************************)
\* Calls of source nested in each other.
MaxDepth == 2
\* builtins::shared::STATUS_CMD_ERROR, STATUS_INVALID_ARGS
STATUS_CMD_ERROR == 1
STATUS_INVALID_ARGS == 2
\* The fd wopen_cloexec returns.
OpenedFd == 3

\* Result<Option<()>, NonZeroU8>
ResultOk == [ok |-> TRUE, status |-> 0]
ResultErr(n) == [ok |-> FALSE, status |-> n]

\* parser.get_last_result(): from the status of the last command that ran.
get_last_result(status) == IF status = 0 THEN ResultOk ELSE ResultErr(status)

\* retval.try_into().unwrap() for a u8, then NonZeroU8::new(..).unwrap()
FitsNonZeroU8(retval) == retval >= 1 /\ retval <= 255
ConversionPanics == "called Result::unwrap() on an Err value"

\* Parser::push_block, Parser::pop_block
push_block(bs, b) == Append(bs, b)
pop_block(bs) == SubSeq(bs, 1, Len(bs) - 1)
\* Block::source_block
source_block(filename) == [type |-> "source", file |-> filename]

\* optind of a command line without options: the index after the command name
\* (0-based, as in the source).
Optind == 1

\* source, lines 19-87: what the checks before the push decide.  early is TRUE
\* for a return before line 89.
SourceChecks(f) ==
    LET argc == Len(f.args)
        Early(r) == [early |-> TRUE, result |-> r, fd |-> -1, func_filename |-> ""]
        Go(fd, name) == [early |-> FALSE, result |-> ResultOk, fd |-> fd, func_filename |-> name]
    IN  IF f.parse = "invalid" THEN Early(ResultErr(STATUS_INVALID_ARGS))
        ELSE IF f.parse = "help" THEN Early(ResultOk)
        ELSE IF argc = Optind \/ f.args[Optind + 1] = "-"
        THEN IF f.stdin_fd < 0 THEN Early(ResultErr(STATUS_CMD_ERROR))
             ELSE IF argc = Optind /\ f.stdin_tty THEN Early(ResultErr(STATUS_CMD_ERROR))
             ELSE Go(f.stdin_fd, "-")
        ELSE IF f.file = "missing" THEN Early(ResultErr(STATUS_CMD_ERROR))
        ELSE IF f.file = "fstat fails" THEN Early(ResultErr(STATUS_CMD_ERROR))
        ELSE IF f.file # "regular" THEN Early(ResultErr(STATUS_CMD_ERROR))
        ELSE Go(OpenedFd, f.args[Optind + 1])

\* source: let remaining_args = &args[optind + if argc == optind { 0 } else { 1 }..]
remaining_args(args) ==
    SubSeq(args, Optind + (IF Len(args) = Optind THEN 0 ELSE 1) + 1, Len(args))

Top == frames[Len(frames)]
SetTop(f) == [frames EXCEPT ![Len(frames)] = f]

\* What the source builtin leaves alone.
notSource == <<storeVars, worldVars, histVars, concVars, envVars, color_support, ipc, fbi,
               platformVars, flagVars, widthVars, tried, tableVars, startVars>>

\* source(parser, streams, args) is called, by the shell at top level or by the
\* script an outer source is reading.
S_Call(c) ==
    /\ panic = ""
    /\ \/ frames = <<>>
       \/ /\ frames # <<>>
          /\ Top.pc = "read"
          /\ Len(frames) < MaxDepth
    /\ frames' = Append(frames,
                        [NoCall EXCEPT !.args = c.args, !.parse = c.parse,
                                       !.stdin_fd = c.stdin_fd, !.stdin_tty = c.stdin_tty,
                                       !.file = c.file, !.pc = "checks",
                                       !.entry = [blocks |-> blocks,
                                                  current_filename |-> current_filename,
                                                  argv |-> argv]])
    /\ UNCHANGED <<blocks, current_filename, argv, lastcall, panic, notSource>>

\* source, lines 19-89: the option parse, the choice of the fd and the early returns.
S_Checks ==
    /\ panic = ""
    /\ frames # <<>>
    /\ Top.pc = "checks"
    /\ LET r == SourceChecks(Top)
       IN  frames' = SetTop([Top EXCEPT !.pc = IF r.early THEN "return" ELSE "push",
                                        !.result = r.result, !.fd = r.fd,
                                        !.func_filename = r.func_filename])
    /\ UNCHANGED <<blocks, current_filename, argv, lastcall, panic, notSource>>

\* source, lines 91-106: push_block, the scoped replacement of current_filename,
\* set_argv.
S_Push ==
    /\ panic = ""
    /\ frames # <<>>
    /\ Top.pc = "push"
    /\ blocks' = push_block(blocks, source_block(Top.func_filename))
    /\ current_filename' = Some(Top.func_filename)
    /\ argv' = remaining_args(Top.args)
    /\ frames' = SetTop([Top EXCEPT !.pc = "read", !.pushed = TRUE, !.argv_set = TRUE,
                                    !.saved = current_filename])
    /\ UNCHANGED <<lastcall, panic, notSource>>

\* source, line 108: reader_read returns its status.
S_Read(retval) ==
    /\ panic = ""
    /\ frames # <<>>
    /\ Top.pc = "read"
    /\ frames' = SetTop([Top EXCEPT !.pc = "finish", !.retval = retval])
    /\ UNCHANGED <<blocks, current_filename, argv, lastcall, panic, notSource>>

\* source returning the error of a failed read without popping its block.
S_Finish_keepsblock(last) ==
    /\ panic = ""
    /\ frames # <<>>
    /\ Top.pc = "finish"
    /\ blocks' = (IF Top.retval # 0 THEN blocks ELSE pop_block(blocks))
    /\ frames' = SetTop([Top EXCEPT !.pc = "return",
                                    !.result = IF Top.retval # 0 THEN ResultErr(Top.retval)
                                               ELSE get_last_result(last)])
    /\ UNCHANGED <<current_filename, argv, lastcall, panic, notSource>>

\* source, lines 110-124: pop_block(sb), then the result: the read status as the
\* error, or the parser's last result (last is the status of the last command
\* that ran).  A status that is no NonZeroU8 panics.
S_Finish(last) ==
    /\ panic = ""
    /\ frames # <<>>
    /\ Top.pc = "finish"
    /\ blocks' = pop_block(blocks)
    /\ IF Top.retval # 0 /\ ~FitsNonZeroU8(Top.retval)
       THEN /\ panic' = ConversionPanics
            /\ UNCHANGED frames
       ELSE /\ frames' = SetTop([Top EXCEPT !.pc = "return",
                                            !.result = IF Top.retval # 0
                                                       THEN ResultErr(Top.retval)
                                                       ELSE get_last_result(last)])
            /\ UNCHANGED panic
    /\ UNCHANGED <<current_filename, argv, lastcall, notSource>>

\* source returns: _filename_push, if it was made, is dropped and puts the saved
\* current_filename back.
S_Return ==
    /\ panic = ""
    /\ frames # <<>>
    /\ Top.pc = "return"
    /\ current_filename' = (IF Top.pushed THEN Top.saved ELSE current_filename)
    /\ lastcall' = Top
    /\ frames' = SubSeq(frames, 1, Len(frames) - 1)
    /\ UNCHANGED <<blocks, argv, panic, notSource>>

\* The command lines, streams and files of the calls.
SourceCalls ==
    {[args |-> a, parse |-> "ok", stdin_fd |-> sfd, stdin_tty |-> t, file |-> "regular"] :
        a \in {<<"source">>, <<"source", "-", "x">>},
        sfd \in {-1, 0}, t \in BOOLEAN}
    \cup
    {[args |-> <<"source", "lib.fish">>, parse |-> "ok", stdin_fd |-> 0, stdin_tty |-> TRUE,
      file |-> k] : k \in {"regular", "missing", "fstat fails", "directory"}}
    \cup
    {[args |-> <<"source", "lib.fish", "x", "y">>, parse |-> "ok", stdin_fd |-> -1,
      stdin_tty |-> FALSE, file |-> "regular"]}
    \cup
    {[args |-> <<"source", "lib.fish">>, parse |-> p, stdin_fd |-> 0, stdin_tty |-> TRUE,
      file |-> "regular"] : p \in {"help", "invalid"}}
\* What reader_read returns.
ReadStatuses == {0, 1, 255}
\* The status of the last command of a script.
LastStatuses == {0, 3}

\* The shell is at top level, or inside a function of config.fish.
SourceInit ==
    /\ StoreInit
    /\ db = {}
    /\ penv = [n \in MirrorVars |-> None]
    /\ ConcIdle
    /\ vars = Unset
    /\ exported = {}
    /\ changes = 0
    /\ color_support = ColorSupport_NONE
    /\ ipc = "idle"
    /\ fbi = 1
    /\ macos = FALSE
    /\ tty = None
    /\ wcwidth_emoji = 1
    /\ FlagsInit
    /\ FISH_EMOJI_WIDTH = 1
    /\ StartupIdle
    /\ ran = <<>>
    /\ tried = <<>>
    /\ TableIdle
    /\ frames = <<>>
    /\ lastcall = NoCall
    /\ \/ /\ blocks = <<>>
          /\ current_filename = None
          /\ argv = <<>>
       \/ /\ blocks = <<[type |-> "function", file |-> "config.fish"]>>
          /\ current_filename = Some("config.fish")
          /\ argv = <<"a">>

SourceNext ==
    \/ \E c \in SourceCalls : S_Call(c)
    \/ S_Checks
    \/ S_Push
    \/ \E retval \in ReadStatuses : S_Read(retval)
    \/ \E last \in LastStatuses : S_Finish(last)
    \/ S_Return

SpecSource == SourceInit /\ [][SourceNext]_allvars

(***************************************************************************)
(* Properties of the store (specification Spec)                            *)
(***************************************************************************)

\* C1: a string get of an id that was set on this store returns the value of the
\* last set, from the table and not from the native layer, whatever was got or set
\* for other ids in between.
C1_GetReturnsLastSet ==
    (lastOp.op = "get_str" /\ IsSome(lastSet[lastOp.cap]))
        => (lastOp.sret = lastSet[lastOp.cap] /\ ~lastOp.native)

\* C1 witness: a get of an overridden id for which the loaded terminal has a
\* native answer of its own, with another id overridden too.
C1_Witness ==
    /\ lastOp.op = "get_str"
    /\ IsSome(lastSet[lastOp.cap])
    /\ IsSome(tgetstr(cur_term, heap, lastOp.cap))
    /\ \E c \in StringCaps \ {lastOp.cap} : IsSome(lastSet[c])

\* C2: setup returns true exactly when the database has the entry; after a
\* successful setup the store is a fresh one with an empty table, after a failed
\* one there is no store, and only a successful setup makes a store appear.
C2_SetupResult ==
    /\ [](lastOp.op = "setup" =>
            /\ lastOp.bret <=> SetuptermFinds(lastOp.arg)
            /\ lastOp.bret => TERM = Some([overrides |-> <<>>])
            /\ ~lastOp.bret => TERM = None)
    /\ [][(IsNone(TERM) /\ IsSome(TERM')) => (lastOp'.op = "setup" /\ lastOp'.bret)]_allvars

\* C2 witness: a successful setup over a store that held overrides.
C2_Witness ==
    /\ lastOp.op = "setup"
    /\ lastOp.bret
    /\ lastOp.before > 0
    /\ TERM = Some([overrides |-> <<>>])

\* C3: at most one native handle is allocated at any time, and it is the one
\* cur_term points to: a handle that is replaced or reset is deleted.
C3_OneLiveHandle ==
    /\ Cardinality(Live) <= 1
    /\ Live = (IF cur_term = 0 THEN {} ELSE {cur_term})

\* C3 witness: a setup that opened a handle after releasing the previous one.
C3_Witness ==
    /\ lastOp.op = "setup"
    /\ lastOp.freed
    /\ cur_term # 0
    /\ cur_term \in Live

\* C6: reset deletes a handle exactly when one is active and leaves none active;
\* a reset right after a reset changes nothing of the program's state.
C6_ResetIdempotent ==
    [][Reset =>
        /\ cur_term' = 0
        /\ lastOp'.freed = (cur_term # 0)
        /\ (lastOp.op = "reset" =>
               (~lastOp'.freed /\ UNCHANGED <<cur_term, heap, db, penv, TERM, panic>>))
      ]_allvars

\* C6 witness: a reset that found no active handle on a store that was set up,
\* that is a reset after an earlier reset.
C6_Witness ==
    /\ lastOp.op = "reset"
    /\ ~lastOp.freed
    /\ IsSome(TERM)
    /\ cur_term = 0

\* C7: a store instance exists only while the native handle is active, and no
\* query reaches the native layer without one.
C7_StoreOnlyWithHandle ==
    /\ IsSome(TERM) => is_initialized
    /\ lastOp.native => is_initialized

\* C8: since the last setup the native layer answered successfully at most once
\* per string capability; a successful answer is in the table afterwards and is
\* what the get returned, an undefined answer is returned as None and not cached.
C8_NativeAskedOnce ==
    /\ \A c \in StringCaps : nativeOk[c] <= 1
    /\ (lastOp.op = "get_str" /\ lastOp.native /\ IsSome(lastOp.sret))
          => /\ IsSome(TERM)
             /\ \E i \in 1..Len(Unwrap(TERM).overrides) :
                   Unwrap(TERM).overrides[i] = <<lastOp.cap, Unwrap(lastOp.sret)>>
    /\ (lastOp.op = "get_str" /\ lastOp.native /\ IsNone(lastOp.sret))
          => /\ IsSome(TERM)
             /\ ~InTable(Unwrap(TERM), lastOp.cap)

\* C8 witness: a get served from the table after the native layer answered for
\* that id in this generation (no set put the entry there).
C8_Witness ==
    /\ lastOp.op = "get_str"
    /\ ~lastOp.native
    /\ nativeOk[lastOp.cap] = 1
    /\ IsNone(lastSet[lastOp.cap])


(***************************************************************************)
(* Properties of the store under concurrency (specification SpecConc)      *)
(***************************************************************************)
\* C4: while a thread holds the guard returned by term(), the native handle is
\* neither torn down nor replaced.
C4_NoTeardownWhileHeld ==
    [][(mutex # 0) => (cur_term' = cur_term /\ heap' = heap)]_allvars


(***************************************************************************)
(* Properties of the color support resolver (specification SpecColor)      *)
(***************************************************************************)
\* The value of the first rule of an ordered list whose condition holds.
RECURSIVE FirstMatch(_, _)
FirstMatch(rules, otherwise) ==
    IF rules = <<>> THEN otherwise
    ELSE IF Head(rules).when THEN Head(rules).then
    ELSE FirstMatch(Tail(rules), otherwise)

\* The dispatch returned and published a value.
Resolved == ipc = "idle" /\ panic = ""
\* The published flags.
Flag256 == color_support % 2 = 1
Flag24 == (color_support \div 2) % 2 = 1
\* The terminal's max-colors value; -1 is "undefined".
NativeColors == IF cur_term = 0 THEN -1 ELSE heap[cur_term].co
IsSet(name) == vars[name] # <<>>
Value(name) == vars[name][1]
TermName == IF IsSet("TERM") THEN Value("TERM") ELSE <<>>
OnlyTermSet(t) == \A n \in VarNames : vars[n] = (IF n = "TERM" THEN <<t>> ELSE <<>>)

\* C9: the 256-color flag is the value of the first matching rule of
\* (1) fish_term256 set: its boolean value, (2) TERM contains "256color": true,
\* (3) TERM contains "xterm": true, (4) max-colors defined and >= 256; and
\* TERM=xterm-256color alone, with no max-colors answer, gives 256-color without 24-bit.
C9_Flag256FirstMatch ==
    Resolved =>
        /\ Flag256 = FirstMatch(
              << [when |-> IsSet("fish_term256"),
                  then |-> bool_from_string(UnwrapOr(vars["fish_term256"], <<>>))],
                 [when |-> Contains(TermName, s_256color), then |-> TRUE],
                 [when |-> Contains(TermName, s_xterm), then |-> TRUE],
                 [when |-> TRUE, then |-> (NativeColors # -1 /\ NativeColors >= 256)] >>,
              FALSE)
        /\ (OnlyTermSet(s_xterm_256color) /\ NativeColors = -1)
              => (Flag256 /\ ~Flag24)

\* C9 witness: no override, a TERM that says nothing, and a terminal with exactly
\* 256 colors: the last rule decides.
C9_Witness ==
    /\ Resolved
    /\ ~IsSet("fish_term256")
    /\ TermName = s_ansi
    /\ NativeColors = 256
    /\ Flag256

\* C10: fish_term24bit, when set, decides the 24-bit flag alone; else STY or an
\* "eterm" TERM makes it false whatever max-colors and COLORTERM say; else
\* max-colors > 32767 makes it true.
C10_Flag24TopRules ==
    Resolved =>
        /\ IsSet("fish_term24bit") => (Flag24 = bool_from_string(Value("fish_term24bit")))
        /\ (~IsSet("fish_term24bit") /\ (IsSet("STY") \/ StartsWith(TermName, s_eterm)))
              => ~Flag24
        /\ (~IsSet("fish_term24bit") /\ ~IsSet("STY") /\ ~StartsWith(TermName, s_eterm)
              /\ NativeColors > 32767)
              => Flag24

\* C10 witness: under screen, a terminal with more than 32767 colors and
\* COLORTERM=truecolor still ends without 24-bit color.
C10_Witness ==
    /\ Resolved
    /\ ~IsSet("fish_term24bit")
    /\ IsSet("STY")
    /\ NativeColors > 32767
    /\ IsSet("COLORTERM")
    /\ Value("COLORTERM") = s_truecolor
    /\ ~Flag24


\* The rules above COLORTERM in the 24-bit chain do not apply.
NoTop24Rule ==
    /\ ~IsSet("fish_term24bit")
    /\ ~IsSet("STY")
    /\ ~StartsWith(TermName, s_eterm)
    /\ NativeColors <= 32767

\* C11: when no higher rule applies and COLORTERM is set, the 24-bit flag is true
\* exactly when COLORTERM is "truecolor" or "24bit"; any other value gives false
\* whatever the Konsole, iTerm, st- and VTE signals say.
C11_ColorTermDecides ==
    (Resolved /\ NoTop24Rule /\ IsSet("COLORTERM"))
        => (Flag24 <=> Value("COLORTERM") \in {s_truecolor, s_24bit})

\* C11 witness: COLORTERM has another value while Konsole, iTerm, st- and VTE all
\* signal 24-bit color, and the flag is false.
C11_Witness ==
    /\ Resolved
    /\ NoTop24Rule
    /\ IsSet("COLORTERM")
    /\ Value("COLORTERM") = s_yes
    /\ IsSet("KONSOLE_VERSION")
    /\ IsSet("ITERM_SESSION_ID")
    /\ Value("ITERM_SESSION_ID") = s_plain_id
    /\ StartsWith(TermName, s_st_)
    /\ IsSet("VTE_VERSION")
    /\ Value("VTE_VERSION") = s_3601
    /\ ~Flag24

\* C12: when no higher rule applies and COLORTERM is unset, the 24-bit flag is the
\* first match of: KONSOLE_VERSION, KONSOLE_PROFILE_NAME or ITERM_SESSION_ID is
\* present: true; TERM starts with "st-": true; VTE_VERSION is a number greater
\* than 3600: true; otherwise false.
C12_EmulatorSignals ==
    (Resolved /\ NoTop24Rule /\ ~IsSet("COLORTERM"))
        => Flag24 = FirstMatch(
              << [when |-> \/ IsSet("KONSOLE_VERSION")
                           \/ IsSet("KONSOLE_PROFILE_NAME")
                           \/ IsSet("ITERM_SESSION_ID"),
                  then |-> TRUE],
                 [when |-> StartsWith(TermName, s_st_), then |-> TRUE],
                 [when |-> IsSet("VTE_VERSION"),
                  then |-> UnwrapOr(fish_wcstoi(UnwrapOr(vars["VTE_VERSION"], <<>>)), 0)
                              > 3600] >>,
              FALSE)
(***************************************************************************)
(* Properties of the resolver's callers (specification SpecInit)           *)
(***************************************************************************)
\* The native max-colors answer as update_fish_color_support gets it.
MaxColorsNow == NumberLookup(tgetnum(cur_term, heap))
\* The key of the dispatch in progress, or of the last one.
Key == disp[Writer].key
\* A name that VAR_DISPATCH_TABLE's initializer registers.
IsRegistered(name) == \E i \in 1..Len(REGISTRATIONS) : REGISTRATIONS[i].name = name
ColorTriggers == {"fish_term256", "fish_term24bit", "TERM", "TERMINFO", "TERMINFO_DIRS"}

\* An evaluation of update_fish_color_support ends with this step.
Publishes == ipc \in {"color", "handle_fish_term_change"} /\ ipc' # ipc

\* C13: the global color-support state is written only at the end of an
\* evaluation, and that one write is the union of the two flags of this
\* evaluation (bit 0: 256 colors, bit 1: 24-bit), both computed from the
\* environment and the max-colors answer the evaluation saw; no write sets one
\* flag and keeps the other from an earlier evaluation.
C13_OneWrite ==
    [][IF Publishes
       THEN color_support' =
                (IF supports_256color(vars, MaxColorsNow) THEN 1 ELSE 0)
                + (IF supports_24bit(vars, MaxColorsNow) THEN 2 ELSE 0)
       ELSE color_support' = color_support]_allvars

\* C13 witness: a second evaluation (after a change of a variable) published both
\* bits; the startup evaluation had no 24-bit signal.
C13_Witness ==
    /\ ipc = "idle"
    /\ panic = ""
    /\ changes = 1
    /\ Key = "fish_term24bit"
    /\ color_support = 3

\* C14: when startup has completed, and when the dispatch of a change of
\* fish_term256, fish_term24bit, TERM, TERMINFO or TERMINFO_DIRS has completed,
\* the global color-support state is the resolver's result for the environment
\* and the max-colors answer of that moment.
C14_FreshColorSupport ==
    (ipc = "idle" /\ panic = "" /\ (changes = 0 \/ Key \in ColorTriggers))
        => color_support = ColorSupportBits(vars, MaxColorsNow)

\* C14 witness: TERM was changed to xterm-256color after startup, the dispatch
\* has completed and the 256-color bit is published.
C14_Witness ==
    /\ ipc = "idle"
    /\ panic = ""
    /\ changes = 1
    /\ Key = "TERM"
    /\ vars["TERM"] = Some(s_xterm_256color)
    /\ color_support = ColorSupport_TERM_256COLOR

\* C16: the dispatch of a name without a registration calls no callback and
\* raises no error; the store, the native handle, the derived flags, the
\* color-support state and the process environment stay as they are, up to the
\* return of the dispatch.
C16_UnregisteredNoOp ==
    [][(ipc \in {"env_dispatch_var_change", "return"} /\ ~IsRegistered(Key))
          => /\ disp'[Writer].log = <<>>
             /\ ipc' \in {"return", "idle"}
             /\ UNCHANGED <<storeVars, worldVars, panic, color_support, flagVars, widthVars,
                            envVars>>]_allvars

\* C16 witness: COLORTERM was set to truecolor, its dispatch returned without a
\* callback, and the color-support state still has no 24-bit flag.
C16_Witness ==
    /\ ipc = "idle"
    /\ panic = ""
    /\ Key = "COLORTERM"
    /\ disp[Writer].log = <<>>
    /\ vars["COLORTERM"] = Some(s_truecolor)
    /\ ~IsSet("fish_term24bit")
    /\ ~Flag24

\* The fallback names other than the shell's TERM value, in the order of the list.
FallbacksFor(termstr) ==
    LET Other(f) == f # termstr
    IN  SelectSeq(<<s_xterm_256color, s_xterm, s_ansi, s_dumb>>, Other)
\* init_curses is past its setup calls.
SetupsDone ==
    ipc \notin {"env_dispatch_var_change", "handle_curses_change", "init_curses", "setup",
                "fallbacks"}
\* The setup calls recorded belong to the TERM value the shell has now.
TriedIsCurrent == ipc \notin {"env_dispatch_var_change", "handle_curses_change", "init_curses"}

\* C19: the setup calls of one init_curses are the primary one and then, only if
\* it failed, the fallback names xterm-256color, xterm, ansi, dumb in this order
\* without the name equal to TERM; every call but the last one failed, and the
\* calls end with the first success or with the end of the list.
C19_FallbackOrder ==
    (TriedIsCurrent /\ tried # <<>>)
        => LET names == FallbacksFor(UnwrapOr(GetUnlessEmpty(vars, "TERM"), <<>>))
               n == Len(tried) - 1
           IN  /\ tried[1].name = None
               /\ n <= Len(names)
               /\ \A i \in 1..n : tried[i + 1].name = Some(names[i])
               /\ \A i \in 1..n : ~tried[i].ok
               /\ (SetupsDone /\ panic = "") => (tried[n + 1].ok \/ n = Len(names))

\* C19 witness: TERM is xterm-256color and only dumb has an entry: the primary
\* setup failed, xterm-256color was skipped, xterm and ansi failed, dumb succeeded.
C19_Witness ==
    /\ SetupsDone
    /\ vars["TERM"] = Some(s_xterm_256color)
    /\ Len(tried) = 4
    /\ tried[2].name = Some(s_xterm)
    /\ tried[3].name = Some(s_ansi)
    /\ tried[4] = [name |-> Some(s_dumb), ok |-> TRUE]

(***************************************************************************)
(* Properties of the title heuristic (specification SpecTitle)             *)
(***************************************************************************)
\* C20: title support is false without a TERM value; true for a TERM of the
\* allow-list or with the prefix xterm-, screen- or tmux-, whatever the tty name;
\* false for linux, dumb, vt100 and wsvt25; for any other TERM false if the tty
\* name cannot be read or contains "tty" or "/vc/", else true.
C20_TitleSupport ==
    ipc = "xn" =>
        CAN_SET_TERM_TITLE = FirstMatch(
            << [when |-> ~IsSet("TERM") \/ TermName = <<>>, then |-> FALSE],
               [when |-> \/ TermName \in {s_xterm, s_screen, s_tmux, s_nxterm, s_rxvt,
                                          s_alacritty, s_wezterm}
                         \/ StartsWith(TermName, s_xterm_)
                         \/ StartsWith(TermName, s_screen_)
                         \/ StartsWith(TermName, s_tmux_),
                then |-> TRUE],
               [when |-> TermName \in {s_linux, s_dumb, s_vt100, s_wsvt25}, then |-> FALSE],
               [when |-> tty = None, then |-> FALSE],
               [when |-> Contains(UnwrapOr(tty, <<>>), s_tty), then |-> FALSE],
               [when |-> Contains(UnwrapOr(tty, <<>>), s_vc), then |-> FALSE] >>,
            TRUE)

\* C20 witness: TERM=xterm on a console tty: true, the tty name is not consulted.
C20_Witness ==
    /\ ipc = "xn"
    /\ TermName = s_xterm
    /\ tty = Some(s_dev_tty1)
    /\ CAN_SET_TERM_TITLE

(***************************************************************************)
(* Properties of the dispatch table (specification SpecTable)              *)
(***************************************************************************)
\* Two of the initializer's calls register the same name in the same shape.
HasDuplicate(rs) ==
    \E i, j \in 1..Len(rs) :
        i < j /\ rs[i].shape = rs[j].shape /\ rs[i].name = rs[j].name
\* The callbacks the initializer registers in a shape for a key, as invocations.
CallbacksFor(rs, shape, key) ==
    LET Matches(r) == r.shape = shape /\ r.name = key
        sel == SelectSeq(rs, Matches)
    IN  [i \in 1..Len(sel) |-> Invoked(shape, sel[i].callback, key)]
\* A dispatch of the thread has used, or is about to use, the table.
Dispatching(t) == disp[t].pc = "dispatch" \/ (disp[t].pc = "idle" /\ disp[t].key # "")

\* C15: an initializer that registers a name twice in one shape panics and its
\* table is never the one dispatch uses; an initializer without such a pair
\* (one name once in each shape included) does not panic.
C15_DuplicateIsFatal ==
    /\ lazy.state = "complete" => ~HasDuplicate(regs)
    /\ \A t \in Threads : Dispatching(t) => ~HasDuplicate(regs)
    /\ lazy.state = "poisoned" => (HasDuplicate(regs) /\ panic # "")
    /\ panic # "" => HasDuplicate(regs)

\* C15 witness: the second add of TZ replaced the first in the initializer's
\* local table, the assertion panicked, and no thread has the table.
C15_Witness ==
    /\ Len(regs) = 2
    /\ regs[1] = Named("TZ", "handle_tz_change")
    /\ regs[2] = Named("TZ", "handle_timezone")
    /\ build.table.named_table["TZ"] = Some("handle_timezone")
    /\ lazy.state = "poisoned"
    /\ panic = AlreadyObserving

\* C17: a completed dispatch of a key has invoked the named callback registered
\* for the key, then the anonymous one, each once, and nothing else.
C17_DispatchInvokes ==
    \A t \in Threads :
        (disp[t].pc = "idle" /\ disp[t].key # "")
            => disp[t].log = CallbacksFor(regs, "named", disp[t].key)
                                \o CallbacksFor(regs, "anon", disp[t].key)

\* C17 witness: TZ is registered in both shapes and a dispatch of TZ has invoked
\* both callbacks.
C17_Witness ==
    \E t \in Threads :
        /\ disp[t].pc = "idle"
        /\ disp[t].key = "TZ"
        /\ Len(disp[t].log) = 2
        /\ disp[t].log[1].shape = "named"
        /\ disp[t].log[2].shape = "anon"

\* C18: the initializer runs at most once, a dispatch only ever uses the table
\* the whole initializer returns, and the table never changes once it is there.
C18_BuiltOnce ==
    /\ [](/\ build.runs <= 1
          /\ \A t \in Threads :
                Dispatching(t)
                    => /\ lazy.state = "complete"
                       /\ lazy.value = BuildFrom(VarDispatchTable_default, regs, 1).table)
    /\ [][lazy.state = "complete" => lazy' = lazy]_allvars

\* C18 witness: a thread waits in its first dispatch while another thread is in
\* the middle of the initializer.
C18_Witness ==
    \E t, u \in Threads :
        /\ t # u
        /\ disp[t].pc = "force"
        /\ disp[u].pc = "building"
        /\ build.ri > 1
        /\ build.ri <= Len(regs)

(***************************************************************************)
(* Properties of the curses initializer (specification SpecInit)           *)
(***************************************************************************)
\* C5: without a store (the primary setup and every fallback failed) the
\* initializer and the later dispatches go on: no query ends in the
\* "TERM hasn't been initialized!" panic of term().
C5_NoStoreNoPanic == IsNone(TERM) => panic # NotInitialized

\* The positions inside init_curses, and those after its loop over CURSES_VARIABLES.
InCurses == {"init_curses", "setup", "fallbacks", "apply_term_hacks", "patch", "title", "xn",
             "xn_get", "color", "done"}
AfterMirror == InCurses \ {"init_curses"}
\* The last setup call of the running (or last) init_curses.
LastTried == tried[Len(tried)]
\* A run of init_curses has returned and no later one has started.
CursesCompleted ==
    /\ CURSES_INITIALIZED
    /\ panic = ""
    /\ ipc \notin InCurses \cup {"env_dispatch_var_change", "handle_curses_change"}

\* C26: the 'curses initialized' flag changes only in the last step of
\* init_curses, to true, when the setup calls have ended with a success, the
\* title flag, the newline-glitch flag and the color support have been computed
\* for this terminal; a startup whose initializer died has left it false.
C26_FlagSetLast ==
    /\ []((panic # "" /\ changes = 0) => ~CURSES_INITIALIZED)
    /\ [][CURSES_INITIALIZED' # CURSES_INITIALIZED =>
            /\ ipc = "done"
            /\ ipc' \notin InCurses
            /\ CURSES_INITIALIZED'
            /\ tried # <<>>
            /\ LastTried.ok
            /\ mc_hack = IsSome(Get(vars, "MC_SID"))
            /\ CAN_SET_TERM_TITLE = does_term_support_setting_title(vars, tty)
            /\ TERM_HAS_XN = tgetflag(cur_term, heap)
            /\ color_support = ColorSupportBits(vars, MaxColorsNow)]_allvars

\* C26 witness: the flag is set at the end of a startup that needed two fallbacks.
C26_Witness ==
    /\ CURSES_INITIALIZED
    /\ ipc = "run_inits"
    /\ changes = 0
    /\ Len(tried) = 3
    /\ LastTried.ok

\* C27: whenever CURSES_INITIALIZED reads true, is_initialized() holds.
C27_FlagImpliesHandle == CURSES_INITIALIZED => is_initialized

\* C28: when a run of init_curses has completed, TERM_HAS_XN is the xn flag of
\* the terminal description that the run's successful setup call loaded, and
\* that description is the one cur_term points to.
C28_XnOfThisRun ==
    CursesCompleted =>
        /\ tried # <<>>
        /\ LastTried.ok
        /\ is_initialized
        /\ heap[cur_term] = TermInfo(Unwrap(TermArg(LastTried.name)))
        /\ TERM_HAS_XN = TermInfo(Unwrap(TermArg(LastTried.name))).xn

\* C28 witness: the database has xterm-256color, so startup set up a terminal
\* with the glitch (TERM itself or the first fallback); TERM was then changed to
\* dumb, the re-initialization set up dumb and the flag went back to false.
C28_Witness ==
    /\ CursesCompleted
    /\ changes = 1
    /\ Key = "TERM"
    /\ s_xterm_256color \in db
    /\ vars["TERM"] = Some(s_dumb)
    /\ LastTried = [name |-> None, ok |-> TRUE]
    /\ heap[cur_term].name = s_dumb
    /\ ~TERM_HAS_XN

\* C30: from its first setup call to its return init_curses changes neither the
\* shell's variables nor the process environment, whichever fallback name it sets
\* up; the process environment's TERM is the shell's exported non-empty TERM, or
\* is unset.
C30_FallbackKeepsTerm ==
    /\ []((ipc \in AfterMirror \/ CursesCompleted)
            => penv["TERM"] = GetfUnlessEmptyExport(vars, exported, "TERM"))
    /\ [][(ipc \in AfterMirror) => (vars' = vars /\ exported' = exported /\ penv' = penv)]_allvars

\* C30 witness: TERM is vt220 and exported, the primary setup failed and the
\* fallback dumb was set up; init_curses has returned.
C30_Witness ==
    /\ CursesCompleted
    /\ vars["TERM"] = Some(s_vt220)
    /\ "TERM" \in exported
    /\ penv["TERM"] = Some(s_vt220)
    /\ Len(tried) > 1
    /\ LastTried = [name |-> Some(s_dumb), ok |-> TRUE]
    /\ heap[cur_term].name = s_dumb

(***************************************************************************)
(* Properties of startup, of the locale initializer and of the handlers of *)
(* the configuration variables (specification SpecStart)                   *)
(***************************************************************************)
\* The handlers of run_inits in the order of their return; the color-support
\* resolver returns inside init_curses.
StartupOrder ==
    <<"init_locale", "update_fish_color_support", "init_curses", "guess_emoji_width",
      "update_wait_on_escape_ms", "handle_read_limit_change",
      "handle_fish_use_posix_spawn_change", "handle_fish_trace">>
InLocale == {"init_locale", "setlocale", "probe", "numeric"}

\* C21: during startup the handlers return in the order locale initializer,
\* color-support resolver (inside the curses initializer), curses initializer,
\* emoji width, escape delay, read limit, spawn strategy, tracing; while the
\* locale initializer runs none has returned, the curses initializer runs only
\* after the locale initializer has returned and the resolver only inside the
\* curses initializer; when env_dispatch_init has returned, all of them have run.
C21_StartupOrder ==
    changes = 0 =>
        /\ \E n \in 0..Len(StartupOrder) : ran = SubSeq(StartupOrder, 1, n)
        /\ ipc \in InLocale => ran = <<>>
        /\ ipc \in InCurses => (Len(ran) >= 1 /\ ran[1] = "init_locale")
        /\ ipc \in InCurses \ {"done"} => Len(ran) = 1
        /\ ipc = "done" => ran = SubSeq(StartupOrder, 1, 2)
        /\ ipc = "idle" => ran = StartupOrder

\* C21 witness: env_dispatch_init has returned from a startup that probed for a
\* UTF-8 locale and set the terminal up.
C21_Witness ==
    /\ changes = 0
    /\ ipc = "idle"
    /\ panic = ""
    /\ ran = StartupOrder
    /\ setlocale_calls # <<>>
    /\ CURSES_INITIALIZED
    /\ trace_enabled = FALSE
    /\ USE_POSIX_SPAWN

\* fish_allow_singlebyte_locale holds a true value.
AllowsSinglebyte ==
    /\ IsSome(Get(vars, "fish_allow_singlebyte_locale"))
    /\ Unwrap(Get(vars, "fish_allow_singlebyte_locale")) # <<>>
    /\ Unwrap(Get(vars, "fish_allow_singlebyte_locale"))[1] \in {"Y", "T", "y", "t", "1"}
\* The environment names a locale for every category that the system can load,
\* and the one for the character type has a multi-byte encoding.
EnvIsMultibyte ==
    /\ IsSome(setlocale_env(syslocales, penv))
    /\ MB_CUR_MAX(Unwrap(setlocale_env(syslocales, penv))) > 1
\* The locale variables and the process environment are those the last
\* init_locale saw.
LocaleIsCurrent ==
    ipc \notin {"env_dispatch_var_change", "handle_locale_change", "init_locale", "setlocale"}

\* C22: when the encoding that setlocale(LC_ALL, "") resolved from the
\* environment is multi-byte, and when fish_allow_singlebyte_locale is true,
\* init_locale makes no setlocale(LC_CTYPE, name) call: the step after the
\* resolution goes past the probe loop, the loop is entered only with a
\* single-byte encoding and without the opt-out, and LC_CTYPE stays the name
\* the environment gave.
C22_NoProbeWhenMultibyte ==
    /\ []((LocaleIsCurrent /\ panic = "" /\ (AllowsSinglebyte \/ EnvIsMultibyte))
            => /\ setlocale_calls = <<>>
               /\ ipc # "probe"
               /\ IsSome(setlocale_env(syslocales, penv))
                    => locale.LC_CTYPE = EnvLocale(penv, "LC_CTYPE"))
    /\ []((ipc = "probe" /\ setlocale_calls = <<>>) => MB_CUR_MAX(locale) = 1)
    /\ [][(ipc = "setlocale" /\ ipc' = "probe")
            => (MB_CUR_MAX(locale') = 1 /\ ~AllowsSinglebyte)]_allvars

\* C22 witness: LC_ALL gives the multi-byte ja_JP.eucJP, which is not a UTF-8
\* locale; init_locale has returned without a probe.
C22_Witness ==
    /\ ipc = "init_curses"
    /\ changes = 0
    /\ ~AllowsSinglebyte
    /\ penv["LC_ALL"] = Some(s_ja_JP_eucJP)
    /\ locale.LC_CTYPE = s_ja_JP_eucJP
    /\ setlocale_calls = <<>>

\* C23: the names given to setlocale(LC_CTYPE, name) by one init_locale are the
\* first names of the list C.UTF-8, en_US.UTF-8, en_GB.UTF-8, de_DE.UTF-8, C.utf8,
\* UTF-8 in this order; every name but the last could not be loaded; when the
\* loop is over, the last name was loaded and is the LC_CTYPE locale, with a
\* multi-byte encoding, or all six names were tried and none could be loaded.
C23_ProbeOrder ==
    LET n == Len(setlocale_calls)
        names == <<s_C_UTF_8, s_en_US_UTF_8, s_en_GB_UTF_8, s_de_DE_UTF_8, s_C_utf8, s_UTF_8>>
    IN  /\ n <= Len(names)
        /\ \A i \in 1..n : setlocale_calls[i] = names[i]
        /\ \A i \in 1..(n - 1) : setlocale_calls[i] \notin syslocales
        /\ (n > 0 /\ ipc \notin {"probe", "env_dispatch_var_change", "handle_locale_change",
                                 "init_locale", "setlocale"})
             => \/ /\ setlocale_calls[n] \in syslocales
                   /\ locale.LC_CTYPE = setlocale_calls[n]
                   /\ MB_CUR_MAX(locale) > 1
                \/ /\ n = Len(names)
                   /\ \A i \in 1..n : names[i] \notin syslocales
                   /\ MB_CUR_MAX(locale) = 1

\* C23 witness: the system has en_GB.UTF-8 and de_DE.UTF-8: two names failed, the
\* third was loaded and de_DE.UTF-8 was not tried.
C23_Witness ==
    /\ ipc = "numeric"
    /\ setlocale_calls = <<s_C_UTF_8, s_en_US_UTF_8, s_en_GB_UTF_8>>
    /\ s_de_DE_UTF_8 \in syslocales
    /\ locale.LC_CTYPE = s_en_GB_UTF_8

\* 100 MiB
s_104857600 == <<"1","0","4","8","5","7","6","0","0">>
\* The read limit each value of fish_read_limit of this specification stands for;
\* None for one that is no unsigned number.
ReadLimitOf(value) ==
    CASE value = s_1024 -> Some(s_1024)
      [] value = s_007 -> Some(<<"7">>)
      [] value = s_plus5 -> Some(<<"5">>)
      [] value = s_0 -> Some(s_0)
      [] value = UsizeMaxDigits -> Some(UsizeMaxDigits)
      [] value \in {s_abc, s_minus1, s_2pow64} -> None

\* C24: handle_read_limit_change never panics; with fish_read_limit unset or
\* empty it stores 104857600 and logs nothing; with a value that is no unsigned
\* number it stores 104857600 and logs the warning if and only if the session is
\* interactive; with any other value it stores the number and logs nothing.
C24_ReadLimit ==
    [][ipc = "handle_read_limit_change" =>
          LET v == Get(vars, "fish_read_limit")
              unset == v = None \/ v = Some(<<>>)
              invalid == ~unset /\ ReadLimitOf(Unwrap(v)) = None
          IN  /\ panic' = ""
              /\ READ_BYTE_LIMIT' = (IF unset \/ invalid THEN s_104857600
                                     ELSE Unwrap(ReadLimitOf(Unwrap(v))))
              /\ warnings' = (IF invalid /\ interactive
                              THEN Append(warnings, IgnoringInvalidReadLimit)
                              ELSE warnings)]_allvars

\* C24 witness: an interactive shell was started with fish_read_limit=-1: the
\* default is in effect and the warning was logged once.
C24_Witness ==
    /\ ipc = "idle"
    /\ changes = 0
    /\ interactive
    /\ vars["fish_read_limit"] = Some(s_minus1)
    /\ READ_BYTE_LIMIT = s_104857600
    /\ warnings = <<IgnoringInvalidReadLimit>>

\* The width a value of a width variable of this specification stands for.
WidthOf(value) == IF value \in {s_2, s_3} THEN 2 ELSE 1

ShellView(name) ==
    IF name \in exported /\ Get(vars, name) # None /\ Get(vars, name) # Some(<<>>)
    THEN Get(vars, name)
    ELSE None

\* C29: right after the loop of init_locale the process environment has, for
\* each of the ten locale variables, the shell's non-empty exported value or no
\* entry; right after the loop of init_curses the same holds for TERM, TERMINFO
\* and TERMINFO_DIRS; and whenever startup or a dispatch has returned it holds
\* for all thirteen.
C29_EnvMirrorsShell ==
    /\ ipc \in {"setlocale", "idle"}
         => \A i \in 1..Len(LOCALE_VARIABLES) :
                penv[LOCALE_VARIABLES[i]] = ShellView(LOCALE_VARIABLES[i])
    /\ ipc \in {"setup", "idle"}
         => \A i \in 1..Len(CURSES_VARIABLES) :
                penv[CURSES_VARIABLES[i]] = ShellView(CURSES_VARIABLES[i])

\* C29 witness: the shell was started with LANG and LC_MESSAGES in its process
\* environment; its own LANG is fr_FR and is not exported, and it has no
\* LC_MESSAGES: after startup the process environment has neither.
C29_Witness ==
    /\ ipc = "idle"
    /\ changes = 0
    /\ vars["LANG"] = Some(s_fr_FR)
    /\ "LANG" \notin exported
    /\ penv["LANG"] = None
    /\ penv["LC_MESSAGES"] = None
    /\ penv["TERM"] = Some(s_xterm_256color)
    /\ nl_msg_cat_cntr = 0

\* C31: whenever the locale initializer is not between its setlocale(LC_ALL, "")
\* and its end, the LC_NUMERIC category of the process is the "C" locale.
C31_NumericIsC ==
    (ipc \notin {"setlocale", "probe", "numeric"}) => (locale.LC_NUMERIC = s_C)

\* C31 witness: LANG=fr_FR was loaded, probing ran through the whole list and
\* failed, and the initializer has finished: LC_MESSAGES is fr_FR and LC_NUMERIC
\* is "C".
C31_Witness ==
    /\ ipc = "idle"
    /\ panic = ""
    /\ locale.LC_MESSAGES = s_fr_FR
    /\ locale.LC_CTYPE = s_fr_FR
    /\ Len(setlocale_calls) = Len(UTF8_LOCALES)
    /\ locale.LC_NUMERIC = s_C

\* C32 as stated: the last step of init_locale adds one to _nl_msg_cat_cntr if
\* and only if the LC_MESSAGES name differs from the snapshot.
C32_BumpIffChanged ==
    [][(ipc = "numeric" /\ ipc' # "numeric")
         => ((nl_msg_cat_cntr' # nl_msg_cat_cntr)
                <=> (old_msg_locale # locale'.LC_MESSAGES))]_allvars

\* C32, amended: on a build for a target other than macOS the last step of
\* init_locale adds one to _nl_msg_cat_cntr if and only if the LC_MESSAGES name
\* differs from the snapshot taken at entry; on a macOS build it never does; and
\* no other step changes the counter.
C32_BumpIffChangedNotMacos ==
    [][/\ (ipc = "numeric" /\ ipc' # "numeric")
            => /\ ~macos => ((nl_msg_cat_cntr' = nl_msg_cat_cntr + 1)
                                <=> (old_msg_locale # locale'.LC_MESSAGES))
               /\ ~macos => ((nl_msg_cat_cntr' = nl_msg_cat_cntr)
                                <=> (old_msg_locale = locale'.LC_MESSAGES))
               /\ macos => (nl_msg_cat_cntr' = nl_msg_cat_cntr)
       /\ (ipc # "numeric") => (nl_msg_cat_cntr' = nl_msg_cat_cntr)
       /\ (ipc = "init_locale" /\ ipc' # "init_locale")
            => (old_msg_locale' = locale.LC_MESSAGES)]_allvars

\* C32 witness: startup loaded fr_FR for the messages and counted once; the
\* initializer then ran again for a change of fish_allow_singlebyte_locale, found
\* the message locale as its snapshot and left the counter at one.
C32_Witness ==
    /\ ~macos
    /\ ipc = "idle"
    /\ changes = 1
    /\ "init_locale" \in {ran[i] : i \in 1..Len(ran)}
    /\ old_msg_locale = s_fr_FR
    /\ locale.LC_MESSAGES = s_fr_FR
    /\ nl_msg_cat_cntr = 1

(***************************************************************************)
(* Further properties of the capability store (specification Spec)         *)
(***************************************************************************)
\* C33: the override table of the store is strictly ascending by capability code,
\* hence has at most one entry per identifier; and right after set(id, value) its
\* one entry for id is (id, value).
C33_TableSortedUnique ==
    IsSome(TERM) =>
        LET ov == Unwrap(TERM).overrides
        IN  /\ \A i \in 1..(Len(ov) - 1) : CodeCmp(ov[i][1], ov[i + 1][1]) = "Less"
            /\ \A i, j \in 1..Len(ov) : (ov[i][1] = ov[j][1]) => (i = j)
            /\ lastOp.op = "set"
                 => \E i \in 1..Len(ov) : ov[i] = <<lastOp.cap, Unwrap(lastOp.sret)>>

\* C33 witness: the table holds all three capabilities, the one in the middle
\* ("ZR") was cached from the native layer, and a set has just replaced it in
\* place.
C33_Witness ==
    /\ IsSome(TERM)
    /\ Len(Unwrap(TERM).overrides) = 3
    /\ lastOp.op = "set"
    /\ lastOp.cap = EXIT_ITALICS_MODE
    /\ nativeOk[EXIT_ITALICS_MODE] >= 1
    /\ Unwrap(TERM).overrides[2] = <<EXIT_ITALICS_MODE, Unwrap(lastOp.sret)>>
    /\ Unwrap(TERM).overrides[1][1] = ENTER_ITALICS_MODE
    /\ Unwrap(TERM).overrides[3][1] = ENTER_DIM_MODE

(***************************************************************************)
(* The table that ships (specification SpecTable)                          *)
(***************************************************************************)
\* C34: with the initializer of the source no two calls of add_anon and no two
\* calls of add register the same name, no assertion fails, the Lazy is never
\* poisoned, and the finished table has every registration.
C34_ShippedTableBuilds ==
    (regs = REGISTRATIONS) =>
        /\ \A i, j \in 1..Len(regs) :
              (i # j /\ regs[i].shape = regs[j].shape) => (regs[i].name # regs[j].name)
        /\ panic = ""
        /\ lazy.state # "poisoned"
        /\ \A t \in Threads : disp[t].pc # "panicked"
        /\ lazy.state = "complete"
              => \A i \in 1..Len(regs) :
                    (IF regs[i].shape = "named"
                     THEN lazy.value.named_table[regs[i].name]
                     ELSE lazy.value.anon_table[regs[i].name]) = Some(regs[i].callback)

\* C34 witness: the initializer of the source ran through all its twenty-nine calls
\* and a dispatch of TERM has invoked handle_curses_change from its table.
C34_Witness ==
    /\ regs = REGISTRATIONS
    /\ Len(regs) = 29
    /\ build.ri = Len(regs) + 1
    /\ lazy.state = "complete"
    /\ \E t \in Threads :
          /\ disp[t].pc = "idle"
          /\ disp[t].log = <<Invoked("anon", "handle_curses_change", "TERM")>>

(***************************************************************************)
(* The guard of the store's mutex in the thread that runs the initializers *)
(* (specification SpecInit)                                                *)
(***************************************************************************)
\* The positions whose next step calls curses::setup or curses::term.
LockingSteps == {"setup", "fallbacks", "apply_term_hacks", "xn", "color", "handle_fish_term_change"}
\* The positions inside a block that began with `let term = curses::term();`.
GuardedSteps == {"patch", "xn_get"}

\* C35: whenever the thread is about to call setup or term() it holds no guard of
\* the store's mutex, so the lock returns; a guard is alive only inside the patch
\* block of apply_term_hacks and the xn block of init_curses, neither of which
\* calls setup or term() again.
C35_NoSelfDeadlock ==
    /\ (panic = "" /\ ipc \in LockingSteps) => CanLock
    /\ (mutex # 0) => (mutex = Writer /\ ipc \in GuardedSteps)
    /\ (ipc \in GuardedSteps) => (mutex = Writer)

\* C35 witness: on macOS under Terminal.app the thread has taken and dropped the
\* guard of the patch block, which added the italics capability, then the guard
\* of the xn block, and is about to call term() in update_fish_color_support.
C35_Witness ==
    /\ ipc = "color"
    /\ panic = ""
    /\ HacksApply(vars, macos)
    /\ is_initialized
    /\ IsSome(TERM)
    /\ InTable(Unwrap(TERM), ENTER_ITALICS_MODE)
    /\ mutex = 0

(***************************************************************************)
(* Properties of the source builtin (specification SpecSource)             *)
(***************************************************************************)
\* A call of source returns in this step.
SourceReturns == Len(frames') < Len(frames)
\* The blocks that calls of source have pushed and not yet popped.
OpenSourceBlocks ==
    Cardinality({i \in 1..Len(frames) : frames[i].pushed /\ frames[i].pc = "read"})
        + (IF frames # <<>> /\ Top.pc = "finish" THEN 1 ELSE 0)

\* C36: until a call of source has passed its checks it has pushed no block and
\* changed neither argv nor current_filename, and each of the five error returns
\* leaves from there; the block stack always holds exactly the blocks of the
\* calls that are reading; when a call returns, the block stack and
\* current_filename are as they were when it was called, whether the read
\* succeeded or failed; and a non-zero read status is the error it returns.
C36_SourceBalanced ==
    /\ [](frames # <<>> =>
            /\ Len(blocks) = Len(frames[1].entry.blocks) + OpenSourceBlocks
            /\ ~Top.pushed =>
                  /\ Top.pc \in {"checks", "push", "return"}
                  /\ blocks = Top.entry.blocks
                  /\ argv = Top.entry.argv
                  /\ current_filename = Top.entry.current_filename
            /\ (Top.pc = "return" /\ Top.parse = "ok"
                  /\ (\/ Top.stdin_fd < 0 /\ (Len(Top.args) = 1 \/ Top.args[2] = "-")
                      \/ Top.stdin_tty /\ Len(Top.args) = 1
                      \/ Len(Top.args) > 1 /\ Top.args[2] # "-" /\ Top.file # "regular"))
                  => (~Top.pushed /\ ~Top.argv_set /\ Top.result = ResultErr(STATUS_CMD_ERROR)))
    /\ [][SourceReturns =>
            /\ blocks' = Top.entry.blocks
            /\ current_filename' = Top.entry.current_filename
            /\ (Top.pushed /\ Top.retval # 0) => (Top.result = ResultErr(Top.retval))
            /\ (Top.pushed /\ Top.retval = 0) => Top.result.status \in LastStatuses]_allvars

\* C36 witness: inside a function of config.fish, `source lib.fish` pushed its
\* block, the read failed with status 255, and the call has returned that error
\* with the block popped and current_filename back at config.fish.
C36_Witness ==
    /\ frames = <<>>
    /\ lastcall.args = <<"source", "lib.fish">>
    /\ lastcall.pushed
    /\ lastcall.retval = 255
    /\ lastcall.result = ResultErr(255)
    /\ lastcall.saved = Some("config.fish")
    /\ blocks = <<[type |-> "function", file |-> "config.fish"]>>
    /\ current_filename = Some("config.fish")

====
